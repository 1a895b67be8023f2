---------------------------- MODULE DurableRelay ----------------------------
(***************************************************************************)
(* The durable relay of zeno-fcis-shell, effects/durable.rs, over the      *)
(* checkpoint row of zeno-fcis-shell-sqlite, effects/durable.rs: a Send is *)
(* forwarded to the transport only after its reservation is committed, so  *)
(* that the policy AtMostOne survives the loss of the process.             *)
(*                                                                         *)
(* Several relays may open the same row, one after the other or at the     *)
(* same time.  A write replaces exactly the checkpoint the relay last      *)
(* wrote or read; it may fail, or commit and report a failure.  A relay    *)
(* that fails is stopped until it is dropped and opened again.             *)
(*                                                                         *)
(* The store identity of a key is the scope of every relay of the row; the *)
(* transcript, the checksum and the size of a checkpoint are left out.     *)
(***************************************************************************)
EXTENDS EffectPolicy

CONSTANTS
    Relays,        \* the processes that open the row
    Ids,           \* delivery ids
    Destination,   \* the destination of each delivery
    Policies,      \* the policies of the row's lifetime, in order
    None           \* no delivery

Guards == {i \in 1 .. Len(Policies) : Policies[i].kind = "AtMostOne"}

\* restore() refuses a lifetime without a guard.
ASSUME RelayAssumption ==
    /\ Policies \in Seq([kind: {"AtMostOne", "Allowlist"}, capacity: Nat,
                         recipients: SUBSET STRING])
    /\ Guards # {}
    /\ Destination \in [Ids -> STRING]
    /\ None \notin Ids

VARIABLES
    row,      \* the durable checkpoint
    relay,    \* each process's relay
    invoked   \* history variable: how often the transport was given a delivery

vars == <<row, relay, invoked>>

(***************************************************************************)
(* A checkpoint: every monitor's log and, after a release, the key of the  *)
(* send that the terminal certified as not invoked.                        *)
(***************************************************************************)
Checkpoint(logs, release) == [logs |-> logs, release |-> release]

Initial == Checkpoint(NoReservations(Policies), None)

\* Mutant: the released key stays reserved.
RestoredReserved(checkpoint) == checkpoint.logs

\* The monitors restore() returns: a release drops the last key of the guards.
Restored(checkpoint) ==
    [i \in 1 .. Len(Policies) |->
        IF i \in Guards /\ checkpoint.release # None
        THEN SubSeq(checkpoint.logs[i], 1, Len(checkpoint.logs[i]) - 1)
        ELSE checkpoint.logs[i]]

Distinct(log) == \A j, k \in 1 .. Len(log) : log[j] = log[k] => j = k

\* restore() accepts the checkpoint: the guards admit their keys one by one,
\* and a released key is the last of each.
Restorable(checkpoint) ==
    \A i \in 1 .. Len(Policies) :
        LET log == checkpoint.logs[i]
        IN  IF i \notin Guards THEN log = << >>
            ELSE /\ Len(log) <= Policies[i].capacity /\ Distinct(log)
                 /\ checkpoint.release # None =>
                        log # << >> /\ log[Len(log)] = checkpoint.release

-----------------------------------------------------------------------------
(***************************************************************************)
(* A relay is closed, stopped, ready, or at a step of one Send: writing    *)
(* its reservation, in the terminal before or after the transport was      *)
(* invoked, or writing its release.                                        *)
(***************************************************************************)
Down(at) ==
    [at |-> at, monitors |-> Initial.logs, previous |-> Initial.logs,
     stored |-> Initial, sending |-> None]

Ready(monitors, stored) ==
    [at |-> "ready", monitors |-> monitors, previous |-> monitors,
     stored |-> stored, sending |-> None]

Init ==
    /\ row = Initial
    /\ relay = [r \in Relays |-> Down("closed")]
    /\ invoked = [id \in Ids |-> 0]

Becomes(r, state) == relay' = [relay EXCEPT ![r] = state]

\* Relay::open: load the row and restore its monitors.
Open(r) ==
    /\ relay[r].at = "closed"
    /\ Restorable(row)
    /\ Becomes(r, Ready(Restored(row), row))
    /\ UNCHANGED <<row, invoked>>

\* The process dies, or its owner drops the relay to open it again.
Drop(r) ==
    /\ relay[r].at # "closed"
    /\ Becomes(r, Down("closed"))
    /\ UNCHANGED <<row, invoked>>

\* The monitors decide; a veto answers Refused and leaves the relay as it is.
Handle(r, id) ==
    /\ relay[r].at = "ready"
    /\ IF Vetoes(Policies, relay[r].monitors, id, Destination[id]) # {}
       THEN UNCHANGED relay
       ELSE Becomes(r, [relay[r] EXCEPT !.at = "reserve", !.sending = id])
    /\ UNCHANGED <<row, invoked>>

\* Other operations are forwarded without a write; a crash stops the relay.
Forward(r) ==
    /\ relay[r].at = "ready"
    /\ relay' \in {relay, [relay EXCEPT ![r] = Down("stopped")]}
    /\ UNCHANGED <<row, invoked>>

-----------------------------------------------------------------------------
(* Writing the row. *)

\* Mutant: the update is not conditional on the expected bytes.
MatchesAny(r) == TRUE

\* UPDATE ... WHERE bytes = expected.
Matches(r) == row = relay[r].stored

\* The write commits, and the relay goes on; or it fails, having committed or
\* not, or meets another writer's checkpoint, and the relay stops.
Commit(r, next, after) ==
    \/ Matches(r) /\ row' = next /\ Becomes(r, after)
    \/ Matches(r) /\ row' = next /\ Becomes(r, Down("stopped"))
    \/ UNCHANGED row /\ Becomes(r, Down("stopped"))

WithSend(r) ==
    Reserve(Policies, relay[r].monitors, relay[r].sending, Destination[relay[r].sending])

Reserved(r) == Checkpoint(WithSend(r), None)

ReserveStep(r) ==
    /\ relay[r].at = "reserve"
    /\ Commit(r, Reserved(r),
              [relay[r] EXCEPT !.at = "call", !.stored = Reserved(r),
                               !.previous = relay[r].monitors, !.monitors = WithSend(r)])
    /\ UNCHANGED invoked

\* Mutant: the release is written with the monitors from before the send.
ReleasedPrevious(r) == Checkpoint(relay[r].previous, relay[r].sending)

\* The release keeps the reserved snapshot and names its last key.
Released(r) == Checkpoint(relay[r].monitors, relay[r].sending)

ReleaseStep(r) ==
    /\ relay[r].at = "release"
    /\ Commit(r, Released(r), Ready(relay[r].previous, Released(r)))
    /\ UNCHANGED invoked

-----------------------------------------------------------------------------
(* The terminal: external, its report of an invocation is a premise. *)

Invoke(r) ==
    /\ relay[r].at = "call"
    /\ Becomes(r, [relay[r] EXCEPT !.at = "called"])
    /\ invoked' = [invoked EXCEPT ![relay[r].sending] = @ + 1]
    /\ UNCHANGED row

Kept(r) == Ready(relay[r].monitors, relay[r].stored)

\* Mutant: every suspension releases, whatever the report says.
ReturnSuspended(r) ==
    /\ relay[r].at \in {"call", "called"}
    /\ Becomes(r, Kept(r)) \/ Becomes(r, Down("stopped"))
         \/ Becomes(r, [relay[r] EXCEPT !.at = "release"])
    /\ UNCHANGED <<row, invoked>>

\* An answer, or a suspension that may have invoked the transport, keeps the
\* reservation; a crash stops the relay; a suspension that invoked nothing
\* is released.
Return(r) ==
    /\ relay[r].at \in {"call", "called"}
    /\ \/ Becomes(r, Kept(r)) \/ Becomes(r, Down("stopped"))
       \/ relay[r].at = "call" /\ Becomes(r, [relay[r] EXCEPT !.at = "release"])
    /\ UNCHANGED <<row, invoked>>

-----------------------------------------------------------------------------
Next ==
    \E r \in Relays :
        \/ Open(r) \/ Drop(r) \/ Forward(r)
        \/ (\E id \in Ids : Handle(r, id))
        \/ ReserveStep(r) \/ Invoke(r) \/ Return(r) \/ ReleaseStep(r)

Spec == Init /\ [][Next]_vars
-----------------------------------------------------------------------------
(* Properties. *)

Logs == [1 .. Len(Policies) -> Seq(Ids)]

Checkpoints == [logs: Logs, release: Ids \cup {None}]

Sending == {"reserve", "call", "called", "release"}

RelayType ==
    [at: {"closed", "stopped", "ready"} \cup Sending, monitors: Logs, previous: Logs,
     stored: Checkpoints, sending: Ids \cup {None}]

Full(logs) == \E i \in Guards : Len(logs[i]) > Policies[i].capacity

\* Type invariant: checkpoints and monitors of the row's policies, never past
\* a guard's capacity, and a delivery under way exactly while one is handled.
TypeOK ==
    /\ row \in Checkpoints /\ ~Full(row.logs)
    /\ relay \in [Relays -> RelayType]
    /\ \A r \in Relays : relay[r].sending \in Ids <=> relay[r].at \in Sending
    /\ invoked \in [Ids -> Nat]

\* No delivery is given to the transport twice: not by a retry, a restarted
\* relay, a second relay of the same row, after an ambiguous write, nor after
\* a reservation was released.
InvokedOnce == \A id \in Ids : invoked[id] <= 1

\* Whatever write a process died in, the row can be opened again: restore()
\* never answers Corrupt for a checkpoint the relays wrote.
AlwaysRestorable == Restorable(row)

\* A relay that would win the next write decides on exactly the reservations
\* a process restarted from the row would decide on.
MemoryIsRestored ==
    \A r \in Relays :
        relay[r].at \in {"ready", "reserve"} /\ relay[r].stored = row =>
            relay[r].monitors = Restored(row)

Holds(id) == \A i \in Guards : Reserves(Restored(row)[i], id)

\* A reservation is given up only by the relay that made it, in the write that
\* follows a certified non-invocation; no other write loses one.
OnlyReleased ==
    [][\A id \in Ids : Holds(id) /\ ~Holds(id)' =>
          /\ invoked[id] = 0
          /\ \E r \in Relays : relay[r].at = "release" /\ relay[r].sending = id]_vars
=============================================================================
