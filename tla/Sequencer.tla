----------------------------- MODULE Sequencer -----------------------------
(***************************************************************************)
(* Document codes (internal/shared/sequence.go).  Next is called inside    *)
(* the transaction that inserts the document: it locks the counter of the  *)
(* document type until the transaction ends, so that the next value is     *)
(* taken from the last committed one, and a rollback takes it back.        *)
(*                                                                         *)
(* One organization and one year; a counter that does not exist yet is 0   *)
(* (the row is inserted ON CONFLICT DO NOTHING, which waits for another    *)
(* inserting transaction as the lock would).                               *)
(***************************************************************************)
EXTENDS Integers, Sequences

CONSTANTS
    Request,    \* request handlers, each with at most one transaction
    DocType,
    NoRequest

ASSUME NoRequestAssumption == NoRequest \notin Request

VARIABLES
    last,       \* committed document_sequences.last_value
    holder,     \* the transaction that holds the lock of a counter
    minted,     \* the value a transaction has taken, 0 for none
    codes       \* the codes of committed documents, in order of commit

seqVars == <<last, holder, minted, codes>>

SeqInit ==
    /\ last = [d \in DocType |-> 0]
    /\ holder = [d \in DocType |-> NoRequest]
    /\ minted = [p \in Request |-> 0]
    /\ codes = [d \in DocType |-> <<>>]

(* Sequencer.Next: waits for the counter, takes the next value.            *)
Allocate(p, d) ==
    /\ holder[d] = NoRequest
    /\ holder' = [holder EXCEPT ![d] = p]
    /\ minted' = [minted EXCEPT ![p] = last[d] + 1]
    /\ UNCHANGED <<last, codes>>

ReleaseCounters(p) ==
    /\ holder' = [d \in DocType |-> IF holder[d] = p THEN NoRequest ELSE holder[d]]
    /\ minted' = [minted EXCEPT ![p] = 0]

(* The document and the counter commit together.                           *)
CommitCodes(p) ==
    /\ last' = [d \in DocType |-> IF holder[d] = p THEN minted[p] ELSE last[d]]
    /\ codes' = [d \in DocType |->
                   IF holder[d] = p THEN Append(codes[d], minted[p]) ELSE codes[d]]
    /\ ReleaseCounters(p)

(* Mutant of AbortCodes: the counter is not part of the transaction.       *)
AbortBurns(p) ==
    /\ last' = [d \in DocType |-> IF holder[d] = p THEN minted[p] ELSE last[d]]
    /\ ReleaseCounters(p)
    /\ UNCHANGED codes

(* Mutant of AbortCodes: the lock is not released.                         *)
AbortKeepsLock(p) ==
    /\ minted' = [minted EXCEPT ![p] = 0]
    /\ UNCHANGED <<last, holder, codes>>

(* A rolled-back document does not burn a number.                          *)
AbortCodes(p) ==
    /\ ReleaseCounters(p)
    /\ UNCHANGED <<last, codes>>

SeqTypeOK ==
    /\ last \in [DocType -> Nat]
    /\ holder \in [DocType -> Request \cup {NoRequest}]
    /\ minted \in [Request -> Nat]
    /\ codes \in [DocType -> Seq(Nat)]

(* The codes of a document type are 1, 2, 3, ... in the order in which the *)
(* documents were committed: none is used twice, none is missing, and a    *)
(* document that failed did not take one (sequence.go:13-18, 32-34).       *)
CodesGapless == \A d \in DocType : codes[d] = [i \in 1..last[d] |-> i]
=============================================================================
