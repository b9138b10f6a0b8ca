----------------------- MODULE TransactionAuthority -----------------------
(***************************************************************************)
(* What the market-evidence store promises its callers: one append-only    *)
(* history of transactions, and answers that name a transaction of it.     *)
(* There are no processes, locks, directories or failures here.            *)
(* AtomicPublisher implements it.                                          *)
(***************************************************************************)
EXTENDS Integers, Sequences

CONSTANTS
    AuthEntry,          \* transactions' content
    Extends(_, _),      \* Extends(h, e): e may follow the history h
    MayLose             \* a power loss may undo the latest transactions

VARIABLES
    chain,     \* the authoritative history
    reported   \* the histories callers were told are COMMITTED

Init == chain = <<>> /\ reported = {}

(* One transaction becomes authoritative. *)
Publish ==
    \E e \in AuthEntry :
       /\ chain' = Append(chain, e)
       /\ Extends(chain, e)
       /\ UNCHANGED reported

(* A caller is told that a transaction of the history is committed. *)
Report ==
    \E n \in 1..Len(chain) :
       /\ reported' = reported \cup {SubSeq(chain, 1, n)}
       /\ UNCHANGED chain

Lose ==
    /\ MayLose
    /\ \E n \in 0..Len(chain) : chain' = SubSeq(chain, 1, n)
    /\ UNCHANGED reported

Next == Publish \/ Report \/ Lose

Spec == Init /\ [][Next]_<<chain, reported>>
=============================================================================
