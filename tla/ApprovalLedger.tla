---------------------------- MODULE ApprovalLedger ----------------------------
(***************************************************************************)
(* What the change-set layer promises, without clocks, records, locks or   *)
(* crashes: a plan is proposed by one principal, granted by at most one    *)
(* other human, and the grant is used by at most one operation.  Nothing   *)
(* is ever taken back.                                                     *)
(***************************************************************************)
CONSTANTS Plan, Principals, Humans, Ops, None

VARIABLES
    proposer,   \* proposer[c]: who proposed plan c
    grantor,    \* grantor[c]: the second person who approved it
    users       \* users[c]: the operations that used the approval

ledger == <<proposer, grantor, users>>

Init ==
    /\ proposer = [c \in Plan |-> None]
    /\ grantor = [c \in Plan |-> None]
    /\ users = [c \in Plan |-> {}]

Propose(c, p) ==
    /\ proposer[c] = None
    /\ proposer' = [proposer EXCEPT ![c] = p]
    /\ UNCHANGED <<grantor, users>>

Grant(c, p) ==
    /\ proposer[c] # None
    /\ grantor[c] = None
    /\ p # proposer[c]
    /\ grantor' = [grantor EXCEPT ![c] = p]
    /\ UNCHANGED <<proposer, users>>

Use(c, o) ==
    /\ grantor[c] # None
    /\ users[c] = {}
    /\ users' = [users EXCEPT ![c] = {o}]
    /\ UNCHANGED <<proposer, grantor>>

Next ==
    \E c \in Plan :
        \/ \E p \in Principals : Propose(c, p)
        \/ \E p \in Humans : Grant(c, p)
        \/ \E o \in Ops : Use(c, o)

Spec == Init /\ [][Next]_ledger
=============================================================================
