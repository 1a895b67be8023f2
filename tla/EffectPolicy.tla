---------------------------- MODULE EffectPolicy ----------------------------
(***************************************************************************)
(* The policy monitors of zeno-fcis-shell, effects/policy.rs, and their    *)
(* joint admission of one Send, effects/policy_record.rs.                  *)
(*                                                                         *)
(* A policy is at most one forwarded send per delivery id, with a bound on *)
(* the ids it can hold, or a list of allowed destinations.  The monitors   *)
(* of a stack are a sequence of reservation logs, one per policy, in order *)
(* of reservation; an allowlist's log stays empty.                         *)
(***************************************************************************)
EXTENDS Naturals, Sequences

AtMostOne(capacity) == [kind |-> "AtMostOne", capacity |-> capacity, recipients |-> {}]
Allowlist(recipients) == [kind |-> "Allowlist", capacity |-> 0, recipients |-> recipients]

PolicyType == [kind: {"AtMostOne", "Allowlist"}, capacity: Nat, recipients: SUBSET STRING]

Reserves(attempts, id) == \E i \in 1 .. Len(attempts) : attempts[i] = id

\* Mutant: the capacity is off by one.
VerdictPastCapacity(policy, attempts, id, destination) ==
    IF policy.kind = "AtMostOne"
    THEN IF Reserves(attempts, id) THEN "PolicyDuplicate"
         ELSE IF Len(attempts) > policy.capacity THEN "PolicyCapacity"
         ELSE "Allow"
    ELSE IF destination \notin policy.recipients THEN "PolicyRecipient" ELSE "Allow"

\* One monitor's verdict on a Send; other requests are always allowed.
Verdict(policy, attempts, id, destination) ==
    IF policy.kind = "AtMostOne"
    THEN IF Reserves(attempts, id) THEN "PolicyDuplicate"
         ELSE IF Len(attempts) >= policy.capacity THEN "PolicyCapacity"
         ELSE "Allow"
    ELSE IF destination \notin policy.recipients THEN "PolicyRecipient" ELSE "Allow"

Proposed(policy, attempts, id) ==
    IF policy.kind = "AtMostOne" THEN Append(attempts, id) ELSE attempts

Vetoes(policies, monitors, id, destination) ==
    {i \in 1 .. Len(policies) :
        Verdict(policies[i], monitors[i], id, destination) # "Allow"}

\* The first refusal in stack order, or "Allow".
Rejection(policies, monitors, id, destination) ==
    LET vetoes == Vetoes(policies, monitors, id, destination)
    IN  IF vetoes = {} THEN "Allow"
        ELSE LET first == CHOOSE i \in vetoes : \A j \in vetoes : i <= j
             IN  Verdict(policies[first], monitors[first], id, destination)

\* Mutant: monitors in front of the one that refuses keep their proposal.
ReservePartly(policies, monitors, id, destination) ==
    LET vetoes == Vetoes(policies, monitors, id, destination)
    IN  [i \in 1 .. Len(policies) |->
            IF \A j \in vetoes : i < j THEN Proposed(policies[i], monitors[i], id)
            ELSE monitors[i]]

\* The reservations to install before the terminal is called.  A veto of one
\* monitor discards the proposals of all of them.
Reserve(policies, monitors, id, destination) ==
    IF Vetoes(policies, monitors, id, destination) = {}
    THEN [i \in 1 .. Len(policies) |-> Proposed(policies[i], monitors[i], id)]
    ELSE monitors

NoReservations(policies) == [i \in 1 .. Len(policies) |-> << >>]
=============================================================================
