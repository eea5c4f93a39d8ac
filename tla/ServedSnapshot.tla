--------------------------- MODULE ServedSnapshot ---------------------------
(***************************************************************************)
(* What the D1 publisher promises the readers of a product: at every       *)
(* moment they are given one whole publication (rows, catalog entry,       *)
(* metadata and evidence of the same version) or none; a new one is exposed *)
(* in one step, the one it replaced is kept until the new one has been     *)
(* accepted, and an unaccepted one can only be replaced by going back.     *)
(***************************************************************************)
EXTENDS Naturals

CONSTANTS None, Version

VARIABLES
  served,     \* the publication readers are given
  fallback,   \* the publication kept to go back to
  accepted    \* the last publication that passed every check

vars == <<served, fallback, accepted>>

Init == served = None /\ fallback = None /\ accepted = None

\* A candidate replaces what is served, which must not be an unaccepted
\* candidate with something better still kept behind it.
Expose ==
  /\ fallback = None
  /\ served' \in Version \ {served}
  /\ fallback' = served
  /\ accepted \in {None, served}
  /\ UNCHANGED accepted

Accept == accepted' = served /\ UNCHANGED <<served, fallback>>

\* An unaccepted candidate is withdrawn.
Revert ==
  /\ accepted # served \/ accepted = None
  /\ served' = fallback
  /\ fallback' = None
  /\ UNCHANGED accepted

\* The accepted candidate no longer needs a fallback.
Forget ==
  /\ accepted = served
  /\ fallback' = None
  /\ UNCHANGED <<served, accepted>>

Next == Expose \/ Accept \/ Revert \/ Forget

Spec == Init /\ [][Next]_vars
=============================================================================
