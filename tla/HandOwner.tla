-------------------------------- MODULE HandOwner --------------------------------
(***************************************************************************)
(* What the ownership of a fleet home promises: at most one watcher owns   *)
(* it, the owner may be asked to step aside, and an owner that was asked   *)
(* does.  HandTakeover implements this with a kernel lock, a routing       *)
(* record and an endpoint.                                                 *)
(***************************************************************************)
CONSTANTS
    Watchers,    \* processes of hand watch
    Nobody

VARIABLES
    owner,    \* the watcher that owns the home, or Nobody
    asked     \* it has been asked to step aside

ownerVars == <<owner, asked>>

OwnerTypeOK ==
    /\ owner \in Watchers \cup {Nobody}
    /\ asked \in BOOLEAN

OwnerInit ==
    /\ owner = Nobody
    /\ asked = FALSE

Own(p) ==
    /\ owner = Nobody
    /\ owner' = p
    /\ asked' = FALSE

Ask ==
    /\ owner # Nobody
    /\ asked' = TRUE
    /\ UNCHANGED owner

(* The owner ends, for whatever reason; a process that dies is no owner.     *)
Leave ==
    /\ owner # Nobody
    /\ owner' = Nobody
    /\ asked' = FALSE

OwnerNext == Ask \/ Leave \/ \E p \in Watchers : Own(p)

OwnerSpec == OwnerInit /\ [][OwnerNext]_ownerVars /\ WF_ownerVars(asked /\ Leave)

=============================================================================
