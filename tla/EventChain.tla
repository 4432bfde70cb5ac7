----------------------------- MODULE EventChain -----------------------------
(***************************************************************************)
(* The off-chain lifecycle rules of packages/receipt-core: which stage may *)
(* follow which, which sequences of lifecycle events form one receipt, and *)
(* the status a receipt may show.  These are pure functions of their       *)
(* input; the module declares no variable.                                 *)
(*                                                                         *)
(* An event is a record with the fields of its canonical core that the     *)
(* rules look at.  Parsing the envelope and recomputing its keccak hash    *)
(* are left out: an event here is one whose hash is already right.         *)
(***************************************************************************)
EXTENDS Naturals, Sequences

CONSTANT Zero   \* the all-zero 32-byte hash

EventStage == {"ATTEMPTED", "SITE_CONFIRMED", "AUTHORITY_ACCEPTED", "AUTHORITY_REJECTED"}
AuthorityStage == {"AUTHORITY_ACCEPTED", "AUTHORITY_REJECTED"}

\* ALLOWED_TRANSITIONS: the stages that may follow each stage.
AllowedTransitions ==
  [NONE               |-> {"ATTEMPTED"},
   ATTEMPTED          |-> {"SITE_CONFIRMED"} \cup AuthorityStage,
   SITE_CONFIRMED     |-> AuthorityStage,
   AUTHORITY_ACCEPTED |-> {},
   AUTHORITY_REJECTED |-> {}]

\* isValidTransition
IsValidTransition(from, to) == to \in AllowedTransitions[from]

\* The stage reached before event i of a chain, and the hash it must link to.
StageBefore(events, i) == IF i = 1 THEN "NONE" ELSE events[i - 1].stage
LinkBefore(events, i) == IF i = 1 THEN Zero ELSE events[i - 1].eventHash

\* validateEventChain: the chains it accepts (it throws on every other one).
ValidateEventChain(events) ==
  \A i \in DOMAIN events :
    /\ \A j \in 1..(i - 1) : events[j].eventHash # events[i].eventHash
    /\ events[i].previousEventHash = LinkBefore(events, i)
    /\ i > 1 => /\ events[i].previousEventHash # Zero
                /\ events[i].receiptId = events[1].receiptId
    /\ IsValidTransition(StageBefore(events, i), events[i].stage)
=============================================================================
