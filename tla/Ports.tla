-------------------------------- MODULE Ports -------------------------------
(***************************************************************************)
(* What programs, handlers and the driver exchange (zeno-fcis-shell,       *)
(* effects/port.rs and effects/driver.rs): outcomes, program steps and the *)
(* binding of a reply to its request.                                      *)
(***************************************************************************)
EXTENDS Naturals

Faults == {"Busy", "Full", "Io"}

(***************************************************************************)
(* Outcomes, of one operation and of a whole run.                          *)
(***************************************************************************)
Ok(value) == [tag |-> "Ok", value |-> value]
Refused(code) == [tag |-> "Refused", code |-> code]
NotApplied(fault) == [tag |-> "NotApplied", fault |-> fault]
Unknown(fault) == [tag |-> "Unknown", fault |-> fault]
NoOutcome == [tag |-> "None"]

(***************************************************************************)
(* Expected-version guards of a commit (CommitMode).  The unused fields of *)
(* a guard are zero.                                                       *)
(***************************************************************************)
Unversioned == [kind |-> "Unversioned", expected |-> 0, cap |-> 0]
At(version) == [kind |-> "At", expected |-> version, cap |-> 0]
BoundedAt(version, cap) == [kind |-> "BoundedAt", expected |-> version, cap |-> cap]
ModeKinds == {"Unversioned", "At", "BoundedAt"}
Modes == [kind: ModeKinds, expected: Nat, cap: Nat]

(***************************************************************************)
(* A publication's original inputs.  `genuine' says that its identity is   *)
(* the store's Authority and its subject is the one computed for these     *)
(* inputs; `size' is the byte length a BoundedAt cap is compared with.     *)
(***************************************************************************)
Publications ==
    [prestate: Nat, body: Nat, genuine: BOOLEAN, size: Nat]

\* The certificate of a commit: its version, its chain, and how it was got.
Receipt(version, chain, status) ==
    [version |-> version, chain |-> chain, status |-> status]

\* A delivery id is computed from the chain of its commit and its ordinal.
DeliveryId(chain, ordinal) == [chain |-> chain, ordinal |-> ordinal]

\* One step of a program: it ended, or it asks for one operation.
Done(outcome) == [tag |-> "Done", outcome |-> outcome]
Request(cont) == [tag |-> "Request", cont |-> cont]

\* Mutant: the ordinal of the reply is not compared.
BoundAtAnyOrdinal(waiting, outstanding, got) ==
    /\ waiting
    /\ got.epoch = outstanding.epoch
    /\ got.port = outstanding.port
    /\ got.handle = outstanding.handle
    /\ got.subject = outstanding.subject

\* Driver::reply admits a reply only when it is bound to the outstanding
\* request; any other reply changes nothing.
Bound(waiting, outstanding, got) ==
    /\ waiting
    /\ got.epoch = outstanding.epoch
    /\ got.ordinal = outstanding.ordinal
    /\ got.port = outstanding.port
    /\ got.handle = outstanding.handle
    /\ got.subject = outstanding.subject
=============================================================================
