----------------------------- MODULE FindReport -----------------------------
(***************************************************************************)
(* What a search promises, without its scans: it wants to report a set of  *)
(* places, each a file, a find and a line; it reports each of them once,   *)
(* in the order of the files, then of the finds, then of the lines, and it *)
(* does not leave a file before all of its places have been reported.      *)
(***************************************************************************)
EXTENDS Naturals

VARIABLES
  wanted,    (* The places, as triples of numbers.                         *)
  reported,  (* Those reported, ...                                        *)
  reports,   (* ... and the number of reports that were made of them.      *)
  left       (* The number of files that have been left.                   *)

vars == <<wanted, reported, reports, left>>

Before(v, w) ==
  \/ v[1] < w[1]
  \/ v[1] = w[1] /\ v[2] < w[2]
  \/ v[1] = w[1] /\ v[2] = w[2] /\ v[3] < w[3]

Init ==
  /\ wanted \in SUBSET (Nat \X Nat \X Nat)
  /\ reported = {} /\ reports = 0
  /\ left = 0

Report ==
  /\ \E w \in wanted \ reported :
       /\ w[1] > left
       /\ \A v \in wanted : Before(v, w) => v \in reported
       /\ reported' = reported \cup {w}
  /\ reports' = reports + 1
  /\ UNCHANGED <<wanted, left>>

Leave ==
  /\ \A w \in wanted : w[1] = left + 1 => w \in reported
  /\ left' = left + 1
  /\ UNCHANGED <<wanted, reported, reports>>

Next == Report \/ Leave

Spec == Init /\ [][Next]_vars
=============================================================================
