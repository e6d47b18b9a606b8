------------------------------- MODULE TxSlot -------------------------------
(***************************************************************************)
(* What the busy flag of a signer promises to the rest of the solver:      *)
(* every wallet has ONE transaction slot.  A call takes the slot of a      *)
(* wallet before it asks for a nonce, keeps it until the fate of its       *)
(* transaction is known, and then leaves it, once.                         *)
(*                                                                         *)
(* This is the abstract specification that Signer.tla implements when no   *)
(* write RPC, no late receipt and no untracked transaction gets in the way.*)
(***************************************************************************)
CONSTANTS
    Calls,          \* transaction requests, each served at most once
    Wallets,
    NoCall          \* the slot is free

VARIABLES
    holder,         \* the call that owns each wallet's slot
    finished        \* the calls whose outcome is known

slotVars == <<holder, finished>>

SlotInit ==
    /\ holder = [w \in Wallets |-> NoCall]
    /\ finished = {}

Take(c, w) ==
    /\ holder[w] = NoCall
    /\ c \notin finished
    /\ \A v \in Wallets : holder[v] # c
    /\ holder' = [holder EXCEPT ![w] = c]
    /\ UNCHANGED finished

Leave(w) ==
    /\ holder[w] # NoCall
    /\ holder' = [holder EXCEPT ![w] = NoCall]
    /\ finished' = finished \union {holder[w]}

\* A call may also end without ever needing the slot (no trade was found).
Abandon(c) ==
    /\ c \notin finished
    /\ \A v \in Wallets : holder[v] # c
    /\ finished' = finished \union {c}
    /\ UNCHANGED holder

SlotNext ==
    \/ \E c \in Calls, w \in Wallets : Take(c, w)
    \/ \E w \in Wallets : Leave(w)
    \/ \E c \in Calls : Abandon(c)

\* A taken slot is always left again: nothing waits forever for a wallet.
SlotSpec == SlotInit /\ [][SlotNext]_slotVars
                     /\ \A w \in Wallets : WF_slotVars(Leave(w))
=============================================================================
