---------------------------- MODULE MCQueryService -----------------------------
(* QueryService for TLC: two users, one of them with a limit of his own, and  *)
(* contexts, bodies and sizes for every branch of the answer.                 *)
EXTENDS QueryService

CONSTANTS ann, bob, m1, m2, m3, t1, t2

MCAccount == (ann :> [role |-> "beta", override |-> -1]) @@ (bob :> [role |-> "public", override |-> 0])
MCProtocol == (m1 :> "openai") @@ (m2 :> "anthropic") @@ (m3 :> "responses")
MCSettings == [perUser |-> 8, perProject |-> 2]

Item(no, type, score) == [no |-> no, type |-> type, score |-> score]
Plain == [answerable |-> TRUE, code |-> <<Item(1, "code", 9)>>, docs |-> <<>>, flows |-> <<>>]
MCPacks ==
    {Plain,
     [answerable |-> FALSE, code |-> <<Item(1, "code", 0)>>, docs |-> <<>>, flows |-> <<>>],
     [answerable |-> TRUE, flows |-> << <<"F", 1>> >>, docs |-> <<Item(2, "spec", 12)>>,
      code |-> <<Item(1, "test", 10), Item(3, "code", 8), Item(4, "code", 5)>>]}

L(kind, cites, gap) == [kind |-> kind, cites |-> cites, gap |-> gap, count |-> 0]
E(n) == <<"E", n>>
Block(type, lines) == [type |-> type, text |-> lines]
Thought == Block("thinking", <<L("thinking", <<E(1)>>, FALSE)>>)
MCBodies ==
    {<<Block("message", <<L("text", <<E(1)>>, TRUE), L("fence", <<>>, FALSE), L("text", <<E(9)>>, TRUE),
                          L("fence", <<>>, FALSE), L("text", <<E(2), E(1)>>, FALSE),
                          L("bare", <<E(9)>>, FALSE)>>)>>,
     <<Thought, Block("text", <<L("text", <<E(1), E(2)>>, FALSE), L("missing", <<>>, FALSE),
                                L("text", <<>>, FALSE), L("blank", <<>>, FALSE),
                                L("head", <<>>, FALSE), L("text", << <<"F", 1>> >>, FALSE)>>)>>,
     <<Thought, Block("output_text", <<L("text", <<E(1)>>, FALSE), L("blank", <<>>, FALSE)>>)>>,
     <<Block("convenience", <<L("text", <<E(3)>>, FALSE)>>), Thought>>,
     <<Thought>>}

MCSymmetry == Permutations({t1, t2})

MCUsages == {[mine |-> 1, project |-> 1, readable |-> TRUE], [mine |-> 2, project |-> 2, readable |-> TRUE],
             [mine |-> 2, project |-> 0, readable |-> FALSE]}

\* What a request is told does not depend on the ones before it, or beside it: of
\* two at once, and after the second, only saves and asks in the plainest context
\* up to their first call are followed, and nothing is once two choices of a
\* provider have overlapped.
\* The time before the first save is of no account.
MCFollowed ==
    /\ clock > 0 => \E u \in User : stamps[u] # {}
    /\ \A t \in Thread : req[t].at # "idle" /\ (begun > 2 \/ \E s \in Thread \ {t} : req[s].at # "idle") =>
          /\ ~mixed /\ req[t].op \in Asks \cup {"save"}
          /\ req[t].pack \in {NoPack, Plain} /\ req[t].usage.mine <= 1
          /\ req[t].answer = NoText /\ req[t].posts <= 1 /\ req[t].code \in {0, 200}

================================================================================
