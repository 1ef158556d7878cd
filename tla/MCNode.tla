------------------------------- MODULE MCNode -------------------------------
(***************************************************************************)
(* Instances of Execution and Mempool.  The two share no variable; a       *)
(* behaviour exercises the one that part names while the other rests.      *)
(***************************************************************************)
EXTENDS Execution, Mempool

CONSTANT Parts

VARIABLE part

Transfer(p, n, c, t, a) == [payer |-> p, nonce |-> n, cost |-> c, to |-> t, amount |-> a]
Cert(r, a, txs) == [round |-> r, author |-> a, txs |-> txs]

(* A payer that has nothing sends first, and is funded two rounds later.   *)
mcOrder ==
    <<Cert(0, "a", <<Transfer("poor", 0, 1, "rich", 0)>>),
      Cert(1, "b", <<>>),
      Cert(2, "b", <<Transfer("rich", 0, 1, "poor", 2), Transfer("poor", 1, 1, "rich", 0)>>)>>

mcOpeningFunds == [p \in Payers |-> IF p = "rich" THEN 4 ELSE 0]

(* One payer with two transactions of a tight fee limit, one with a tip.   *)
mcLastNonce == [p \in TxPayers |-> IF p = "p" THEN 1 ELSE 0]
mcSize == [tx \in Txs |-> 2]
mcLimit == [tx \in Txs |-> IF tx[1] = "p" THEN 3 ELSE 9]
mcTip == [tx \in Txs |-> IF tx[1] = "q" THEN 1 ELSE 0]
mcFunds == [p \in TxPayers |-> 15]

nodeVars == <<execVars, poolVars, part>>

NodeInit == part \in Parts /\ ExecInit /\ PoolInit

Exec(A) == part = "execution" /\ A /\ UNCHANGED <<poolVars, part>>
Pool(A) == part = "mempool" /\ A /\ UNCHANGED <<execVars, part>>

NodeNext == Exec(ExecNext) \/ Pool(PoolNext)

(* ExecFairness and PoolFairness, each for the part that moves.            *)
NodeFairness ==
    /\ WF_nodeVars(Exec(ReceiveCertificate))
    /\ WF_nodeVars(Exec(ReceiveAgain))
    /\ WF_nodeVars(Exec(retry_pending_resync_requests))
    /\ WF_nodeVars(Exec(ProposeRound))
    /\ WF_nodeVars(Exec(\E i \in Positions : ReceiveBatch(i)))
    /\ WF_nodeVars(Exec(\E i \in Positions : Serve(i)))
    /\ WF_nodeVars(Pool(Retry))
    /\ WF_nodeVars(Pool(propose_round))
    /\ WF_nodeVars(Pool(CommitBatch(1)))
    /\ WF_nodeVars(Pool(FeeDecays))

NodeSpec == NodeInit /\ [][NodeNext]_nodeVars /\ NodeFairness

(* Whatever is lost on the way and wherever the node crashes, every        *)
(* certificate the order contains is executed in the end: a batch that is  *)
(* missing stays requestable until it is there (take_executable_prefix,    *)
(* retry_pending_resync_requests, the replay at the start).                *)
EveryCommittedExecutes == <>[](part = "execution" => done = Len(Order))

(* A payer who submits again what was dropped gets every transaction       *)
(* executed: neither the pipelining cursor nor a fee that rose under a     *)
(* pending one leaves the queue behind a nonce nobody proposes             *)
(* (admit_to_mempool, propose_round).                                      *)
EveryRetriedExecutes ==
    <>(part = "mempool" => \A p \in TxPayers : account[p].nonce = LastNonce[p] + 1)

=============================================================================
