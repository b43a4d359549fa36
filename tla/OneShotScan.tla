----------------------------- MODULE OneShotScan -----------------------------
(***************************************************************************)
(* The one-shot scan of a command-line caller                              *)
(* (crates/openlogi-device/src/inventory.rs, enumerate): inventory passes  *)
(* repeat until one is complete, two healthy ones in a row agree, or the   *)
(* attempts are used up.  A pass that met a failure may replay what an     *)
(* earlier one found; the enumerator itself is the module Enumerator.      *)
(***************************************************************************)
EXTENDS Naturals, Sequences, SequencesExt

CONSTANTS Expected,   \* devices the nodes should report
          Attempts,   \* ONESHOT_ATTEMPTS
          NoCandidate

ASSUME AttemptsArePositive == Attempts \in Nat \ {0}
\* stable_candidate is an Option: None is no snapshot.
ASSUME NoCandidateIsNoSnapshot == \A found \in SUBSET Expected : found # NoCandidate

VARIABLES candidate,  \* stable_candidate
          attempt,
          returned,   \* "scanning", "returned" or "failed"
          passes      \* ghost: [found, healthy] of every pass, in order

scanVars == <<candidate, attempt, returned, passes>>

ScanInit == /\ candidate = NoCandidate /\ attempt = 1
            /\ returned = "scanning" /\ passes = << >>

Complete(pass) == pass.healthy /\ pass.found = Expected

\* Mutant: the snapshot before a failure is still compared with.
KeepThroughFailure(pass) == IF pass.healthy THEN pass.found ELSE candidate

\* advance: only a healthy pass can be one of the two that agree.
Candidate(pass) == IF pass.healthy THEN pass.found ELSE NoCandidate

\* is_settled
Settled(pass) == \/ Complete(pass)
                 \/ pass.healthy /\ candidate = pass.found
                 \/ attempt >= Attempts

Scan(pass) ==
    /\ returned = "scanning"
    /\ passes' = Append(passes, pass)
    /\ IF Settled(pass)
       THEN returned' = "returned" /\ UNCHANGED <<candidate, attempt>>
       ELSE /\ candidate' = Candidate(pass) /\ attempt' = attempt + 1
            /\ UNCHANGED returned

\* enumerate's own error ends the scan.
ScanError == /\ returned = "scanning" /\ returned' = "failed"
             /\ UNCHANGED <<candidate, attempt, passes>>

ScanNext == \/ \E found \in SUBSET Expected, healthy \in BOOLEAN :
                 Scan([found |-> found, healthy |-> healthy])
            \/ ScanError
ScanSpec == ScanInit /\ [][ScanNext]_scanVars
-----------------------------------------------------------------------------
(* The scan stops early only on evidence: its last pass was complete, or it *)
(* and the one right before it were both free of failures and found the     *)
(* same; a failed pass between two equal ones starts the count again, and   *)
(* no more passes run than the budget allows.  (is_settled, advance.)       *)
StopsOnEvidence ==
    returned = "returned" =>
      LET n == Len(passes)
          last == passes[n]
      IN \/ Complete(last)
         \/ n = Attempts
         \/ n >= 2 /\ last.healthy /\ passes[n - 1] = last

\* The inductive invariant the proofs use (TLC checks it too): the passes run
\* so far, and the candidate, which is what the last of them found.
ScanInv ==
    /\ passes \in Seq([found : SUBSET Expected, healthy : BOOLEAN])
    /\ attempt \in 1..Attempts
    /\ returned \in {"scanning", "returned", "failed"}
    /\ returned = "scanning" =>
           /\ Len(passes) = attempt - 1
           /\ candidate # NoCandidate =>
                  /\ attempt > 1 /\ passes[attempt - 1].healthy
                  /\ passes[attempt - 1].found = candidate
    /\ StopsOnEvidence
=============================================================================
