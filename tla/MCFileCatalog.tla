---------------------------- MODULE MCFileCatalog ----------------------------
(* Instances of FileCatalog for TLC: alice and bob, and one name everybody     *)
(* asks for, so that every pair of siblings competes for it.                   *)
EXTENDS FileCatalog, FiniteSets, TLC

CONSTANTS alice, bob, bobs   \* bobs: the ids that bob's requests draw

OwnerOf == [i \in Dirs \cup Files |-> IF i \in bobs THEN bob ELSE alice]
OneName == [d \in Dirs |-> "docs"]

AllFaults == FaultKinds

\* At most two requests at a time besides the upload, and bob's directories are made
\* before alice's and stay.
TwoAndUpload ==
  Cardinality({d \in Dirs : dpc[d] = "inserting"} \cup {c \in Calls : pc[c] # "idle"}) <= 2

BobBefore ==
  bobs \subseteq dirs \/ \A d \in Dirs \ bobs : dpc[d] = "new"

FewOverlaps == TwoAndUpload /\ BobBefore

\* Ids of one user are interchangeable, and so are calls.
AliceSymmetry ==
  Permutations(Dirs \ bobs) \cup Permutations(Files \ bobs) \cup Permutations(Calls)
=============================================================================
