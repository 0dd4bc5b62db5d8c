---------------------------- MODULE FencedLedger ----------------------------
(***************************************************************************)
(* What the control plane promises its clients about evidence, with no     *)
(* clock, lease row, transaction, retry or crash in sight: a ledger of     *)
(* proofs, reviews and verdicts behind one fence per bundle.  A bundle's   *)
(* fence only advances; an entry is recorded once, under the fence as it   *)
(* then stands; a verdict is about a proof of the same bundle that is      *)
(* already in the ledger.                                                  *)
(***************************************************************************)
EXTENDS Naturals

CONSTANT Bundles

VARIABLES
    fence,  \* bundle -> the newest fencing token, 0 before the first
    ledger  \* entries [op, id, bundle, token]

LedgerInit ==
    /\ fence = [b \in Bundles |-> 0]
    /\ ledger = {}

\* A worker replaces whoever held the bundle.
Advance(b) ==
    /\ fence' = [fence EXCEPT ![b] = @ + 1]
    /\ UNCHANGED ledger

\* The holder of the newest token records an entry.
RecordEntry(e) ==
    /\ e.bundle \in Bundles
    /\ e.token > 0
    /\ e.token = fence[e.bundle]
    /\ \A f \in ledger : <<f.op, f.id>> # <<e.op, e.id>>
    /\ e.op = "verify" =>
           \E p \in ledger : p.op = "submit" /\ p.id = e.id /\ p.bundle = e.bundle
    /\ ledger' = ledger \cup {e}
    /\ UNCHANGED fence

LedgerNext ==
    \/ \E b \in Bundles : Advance(b)
    \/ \E e \in ledger' : RecordEntry(e)

LedgerSpec == LedgerInit /\ [][LedgerNext]_<<fence, ledger>>
=============================================================================
