-------------------------- MODULE IntentDispatcher --------------------------
(***************************************************************************)
(* The trusted dispatcher and its worker channel: zeno-fcis-shell-sqlite,  *)
(* effects/owner.rs and effects/channel.rs, over the durable relay.        *)
(*                                                                         *)
(* Administration grants a principal one pending intent and gets a handle; *)
(* a worker names a handle by its slot in a channel's table.  A dispatch   *)
(* rechecks the grant, reserves the send in the relay and calls the        *)
(* transport.  The owner may be dropped at any point of it, and opened     *)
(* again: its grants are gone, its reservations and old handles are not.   *)
(*                                                                         *)
(* The exclusive terminal and the lock on the reservation file leave one   *)
(* relay of the row.  A slot is named by the handle it holds.  An intent   *)
(* stays pending while the owner holds the store, or its terminal fails    *)
(* every read, and its content is a function of its id: the checks of both *)
(* in dispatch cannot refuse, and a grant is of a pending intent.          *)
(***************************************************************************)
EXTENDS EffectPolicy, FiniteSets, FiniteSetsExt, Functions

CONSTANTS
    Principals,
    Ids,            \* intents: delivery ids of the application store
    Destination,    \* the destination of each intent
    Bytes,          \* what a grant of each intent retains
    Policies,       \* the policies of the reservation lifetime
    None,           \* no intent, no slot
    GrantLimit,     \* Limits.grants
    ByteLimit,      \* Limits.intent_bytes
    DispatchLimit,  \* Limits.dispatches
    MaxGrant,       \* largest grant id (u64::MAX)
    RequestLimits,  \* the request limits a channel may be given
    MaxOwners       \* incarnations of the owner

ASSUME DispatcherAssumption ==
    /\ Bytes \in [Ids -> Nat]
    /\ GrantLimit \in Nat /\ ByteLimit \in Nat /\ DispatchLimit \in Nat
    /\ MaxGrant \in Nat /\ MaxOwners \in Nat
    /\ RequestLimits \subseteq 1 .. 1024
    /\ None \notin Ids /\ None \notin Principals

\* The lifetime of the reservation file, as DurableRelay assumes it.
ASSUME LifetimeAssumption ==
    /\ Policies \in Seq([kind: {"AtMostOne", "Allowlist"}, capacity: Nat,
                         recipients: SUBSET STRING])
    /\ \E i \in 1 .. Len(Policies) : Policies[i].kind = "AtMostOne"
    /\ Destination \in [Ids -> STRING]

VARIABLES
    row, relay, invoked,  \* DurableRelay's
    brand,      \* the owner's incarnation
    owner,      \* its grants, retained bytes, last grant id, attempts, stopped
    handles,    \* every handle ever issued
    channel,    \* principal, tenant, table, next sequence, limit, stopped
    call,       \* the dispatch under way
    live,       \* history: handles issued by this incarnation and not revoked
    told        \* history: frames of the channel, the last reply, and whether an
                \* earlier one was final

durable == <<row, relay, invoked>>
vars == <<durable, brand, owner, handles, channel, call, live, told>>

Self == "owner"

Relay == INSTANCE DurableRelay WITH Relays <- {Self}

Opened == relay[Self].at # "closed"

NewOwner == [grants |-> {}, retained |-> 0, next |-> 0, attempts |-> 0, stopped |-> FALSE]

NoCall == [principal |-> None, handle |-> None, did |-> FALSE]
Idle == call = NoCall

NoChannel ==
    [principal |-> None, tenant |-> FALSE, table |-> {}, next |-> 0, limit |-> 0, stopped |-> TRUE]

\* Replies after which the channel must serve nothing more.
Final == {"Format", "Sequence", "Slot", "Limit", "DispatcherUnavailable"}

Untold == [frames |-> 0, sequence |-> None, status |-> "None", did |-> FALSE, past |-> FALSE]

Tell(sequence, status, did) ==
    told' = [frames |-> told.frames + 1, sequence |-> sequence, status |-> status,
             did |-> did, past |-> told.past \/ told.status \in Final]

Init ==
    /\ Relay!Init
    /\ brand = 0 /\ owner = NewOwner
    /\ handles = {} /\ live = {}
    /\ channel = NoChannel /\ told = Untold
    /\ call = NoCall

-----------------------------------------------------------------------------
(* Administration. *)

\* TrustedDispatcher::open: a new brand, no grants, the restored relay.
Open ==
    /\ brand < MaxOwners
    /\ Relay!Open(Self)
    /\ brand' = brand + 1
    /\ owner' = NewOwner
    /\ live' = {}
    /\ UNCHANGED <<handles, channel, call, told>>

\* The owner is dropped, also by an unwind or the end of the process in the
\* middle of a dispatch: the channel, if it survives, keeps its poison.
Drop ==
    /\ Relay!Drop(Self)
    /\ owner' = NewOwner
    /\ call' = NoCall /\ live' = {}
    /\ UNCHANGED <<brand, handles, channel, told>>

Fits(id) ==
    /\ Cardinality(owner.grants) < GrantLimit
    /\ owner.next < MaxGrant
    /\ owner.retained + Bytes[id] <= ByteLimit

\* grant; its refusals change nothing.
Grant(principal, id) ==
    LET grant == owner.next + 1
        handle == [brand |-> brand, grant |-> grant, principal |-> principal, intent |-> id]
    IN  /\ Opened /\ Idle /\ ~owner.stopped
        /\ Fits(id)
        /\ owner' = [owner EXCEPT
                       !.grants = @ \cup {[id |-> grant, principal |-> principal, intent |-> id]},
                       !.retained = @ + Bytes[id],
                       !.next = grant]
        /\ handles' = handles \cup {handle}
        /\ live' = live \cup {handle}
        /\ UNCHANGED <<durable, brand, channel, call, told>>

\* The grants a handle's number selects.
Selected(handle) == {g \in owner.grants : g.id = handle.grant}

\* What grants retain together.
BytesOf(grants) == FoldFunction(+, 0, [g \in grants |-> Bytes[g.intent]])

\* Mutant: the bytes of a revoked grant stay retained.
RevokeLeaks(handle) ==
    /\ Opened /\ Idle
    /\ handle.brand = brand
    /\ owner' = [owner EXCEPT !.grants = @ \ Selected(handle)]
    /\ live' = live \ {handle}
    /\ UNCHANGED <<durable, brand, handles, channel, call, told>>

\* revoke; another incarnation's handle is refused, an absent grant is left.
Revoke(handle) ==
    /\ Opened /\ Idle
    /\ handle.brand = brand
    /\ owner' = [owner EXCEPT
                   !.grants = @ \ Selected(handle),
                   !.retained = @ - BytesOf(Selected(handle))]
    /\ live' = live \ {handle}
    /\ UNCHANGED <<durable, brand, handles, channel, call, told>>

\* Channel::new, for any identity and table administration may bind.
OpenChannel(principal, tenant, table, limit) ==
    /\ Opened /\ Idle
    /\ channel' = [principal |-> principal, tenant |-> tenant, table |-> table,
                   next |-> 0, limit |-> limit, stopped |-> FALSE]
    /\ told' = Untold
    /\ UNCHANGED <<durable, brand, owner, handles, call, live>>

-----------------------------------------------------------------------------
(* TrustedDispatcher::dispatch. *)

Refused(reason) == [tag |-> "Refused", reason |-> reason]
Failed(error) == [tag |-> "Failed", error |-> error]
Admitted == [tag |-> "Admitted"]

\* Mutant: a handle of an earlier incarnation is compared by its number only.
FactsUnbranded(principal, tenant, handle) ==
    << <<"Tenant", tenant>>,
       <<"Principal", principal = handle.principal>>,
       <<"Grant", Selected(handle) # {}>>,
       <<"Intent", \E g \in Selected(handle) :
                      g.intent = handle.intent /\ g.principal = handle.principal>> >>

\* What the dispatcher compares before it looks at the store.
Facts(principal, tenant, handle) ==
    << <<"Owner", handle.brand = brand>>,
       <<"Tenant", tenant>>,
       <<"Principal", principal = handle.principal>>,
       <<"Grant", Selected(handle) # {}>>,
       <<"Intent", \E g \in Selected(handle) :
                      g.intent = handle.intent /\ g.principal = handle.principal>> >>

Unmet(facts) == {i \in 1 .. Len(facts) : ~facts[i][2]}

\* The first refusal in order; then the poison, the store and the budget.
Admission(principal, tenant, handle, readable) ==
    LET facts == Facts(principal, tenant, handle)
    IN  IF Unmet(facts) # {} THEN Refused(facts[Min(Unmet(facts))][1])
        ELSE IF owner.stopped THEN Failed("Stopped")
        ELSE IF ~readable THEN Failed("Store")
        ELSE IF owner.attempts >= DispatchLimit THEN Failed("Capacity")
        ELSE Admitted

\* The worker sees a refusal, the transport's answer, or Unavailable.
Status(result) ==
    CASE result.tag = "Refused" -> "DispatcherRefused"
      [] result.tag = "Failed" -> "DispatcherUnavailable"
      [] result.tag = "Answer" -> result.sent

Answered(sent) == [tag |-> "Answer", sent |-> sent]

\* The reply to the frame whose sequence number is one below `next'.
Finish(from, result, did) ==
    /\ call' = NoCall
    /\ channel' = [from EXCEPT !.stopped = Status(result) = "DispatcherUnavailable"]
    /\ Tell(from.next - 1, Status(result), did)

\* The relay decides: a policy's refusal answers at once, or the send goes on
\* with owner and channel poisoned.
Attempt(from, handle) ==
    /\ Relay!Handle(Self, handle.intent)
    /\ owner' = [owner EXCEPT !.attempts = @ + 1, !.stopped = relay'[Self].at # "ready"]
    /\ IF relay'[Self].at = "ready" THEN Finish(from, Answered("PolicyRefused"), FALSE)
       ELSE /\ call' = [principal |-> from.principal, handle |-> handle, did |-> FALSE]
            /\ channel' = [from EXCEPT !.stopped = TRUE]
            /\ UNCHANGED told

Dispatch(from, handle) ==
    \E readable \in BOOLEAN :
        LET admission == Admission(from.principal, from.tenant, handle, readable)
        IN  IF admission = Admitted THEN Attempt(from, handle)
            ELSE Finish(from, admission, FALSE) /\ UNCHANGED <<relay, row, invoked, owner>>

-----------------------------------------------------------------------------
(* Channel::dispatch: one frame of the worker. *)

\* Mutant: a refused frame leaves the channel open.
StopLeavesOpen(error) == channel' = channel

\* A protocol refusal poisons the channel before the dispatcher is called.
Stop(error) == channel' = [channel EXCEPT !.stopped = TRUE]

Violate(error) ==
    /\ Stop(error)
    /\ Tell(None, error, FALSE)
    /\ UNCHANGED <<durable, owner, call>>

Frame(wellFormed, sequence, slot) ==
    /\ Opened /\ Idle /\ ~channel.stopped
    /\ CASE ~wellFormed -> Violate("Format")
         [] wellFormed /\ sequence # channel.next -> Violate("Sequence")
         [] wellFormed /\ sequence = channel.next /\ slot \notin channel.table -> Violate("Slot")
         [] wellFormed /\ sequence = channel.next /\ slot \in channel.table ->
              IF channel.next >= channel.limit THEN Violate("Limit")
              ELSE Dispatch([channel EXCEPT !.next = @ + 1], slot)
    /\ UNCHANGED <<brand, handles, live>>

-----------------------------------------------------------------------------
(* A dispatch under way. *)

Under == UNCHANGED <<brand, handles, live>>

Poisoned == UNCHANGED owner

\* The relay writes the reservation, or fails and the owner stays stopped.
Reserving ==
    /\ Relay!ReserveStep(Self)
    /\ IF relay'[Self].at = "stopped" THEN Finish(channel, Failed("Reservation"), call.did)
       ELSE UNCHANGED <<channel, call, told>>
    /\ Poisoned /\ Under

Invoke ==
    /\ Relay!Invoke(Self)
    /\ call' = [call EXCEPT !.did = TRUE]
    /\ UNCHANGED <<channel, told>> /\ Poisoned /\ Under

\* What a terminal that keeps the reservation may have returned: a transport
\* that was not invoked reports no success.
Answers == {"Unknown", "NotSent"} \cup (IF call.did THEN {"Sent"} ELSE {})

\* The transport answers and lifts the poison; a suspension, a crash and a
\* report of another intent leave it.
Returning ==
    /\ Relay!Return(Self)
    /\ CASE relay'[Self].at = "release" -> Poisoned /\ UNCHANGED <<channel, call, told>>
         [] relay'[Self].at = "stopped" ->
              Poisoned /\ Finish(channel, Failed("Reservation"), call.did)
         [] relay'[Self].at = "ready" ->
              \/ /\ \E sent \in Answers : Finish(channel, Answered(sent), call.did)
                 /\ owner' = [owner EXCEPT !.stopped = FALSE]
              \/ \E error \in {"Stopped"} \cup (IF call.did THEN {"Reply"} ELSE {}) :
                    Finish(channel, Failed(error), call.did) /\ Poisoned
    /\ Under

\* A released send was suspended: no answer reaches the dispatcher.
Releasing ==
    /\ Relay!ReleaseStep(Self)
    /\ Finish(channel, Failed("Stopped"), call.did)
    /\ Poisoned /\ Under

-----------------------------------------------------------------------------
Administer ==
    \/ Open \/ Drop
    \/ \E principal \in Principals, id \in Ids : Grant(principal, id)
    \/ \E handle \in handles : Revoke(handle)
    \/ \E principal \in Principals, tenant \in BOOLEAN, limit \in RequestLimits :
         OpenChannel(principal, tenant, handles, limit)

Work ==
    \/ Frame(FALSE, 0, None)
    \/ \E sequence \in (0 .. Max(RequestLimits)) \ {channel.next} : Frame(TRUE, sequence, None)
    \/ \E slot \in handles \cup {None} : Frame(TRUE, channel.next, slot)

Next == Administer \/ Work \/ Reserving \/ Invoke \/ Returning \/ Releasing

Spec == Init /\ [][Next]_vars
-----------------------------------------------------------------------------
(* Properties. *)

\* The transport is given an intent only for a handle that administration
\* issued in this incarnation, to this very principal and for this intent,
\* and has not revoked since; old handles whose numbers are granted anew
\* after a reopen invoke nothing.
InvokedUnderGrant ==
    [][\A id \in Ids : invoked'[id] # invoked[id] =>
          /\ call.handle \in live
          /\ call.handle.principal = call.principal
          /\ call.handle.intent = id]_vars

\* The books of the owner agree with the handles it issued: one grant per
\* live handle, each under a number of its own, the retained bytes exactly
\* theirs and within the limit, and never more attempts than admitted.
GrantBooks ==
    /\ {<<g.id, g.principal, g.intent>> : g \in owner.grants}
         = {<<h.grant, h.principal, h.intent>> : h \in live}
    /\ \A g, h \in owner.grants : g.id = h.id => g = h
    /\ owner.retained = BytesOf(owner.grants)
    /\ owner.retained <= ByteLimit /\ Cardinality(owner.grants) <= GrantLimit
    /\ owner.attempts <= DispatchLimit

\* What a worker is told over a channel's life: sequence numbers without a
\* repetition or a gap and within the limit, nothing after the first
\* violation or failure, Sent only of an effect that request had, and a
\* refusal only of a request without one.
HonestChannel ==
    /\ ~told.past
    /\ told.status \in Final => channel.stopped
    /\ told.status = "Sent" => told.did
    /\ told.status \in {"PolicyRefused", "DispatcherRefused"} => ~told.did
    /\ told.sequence # None => told.sequence = told.frames - 1 /\ told.frames <= channel.limit
=============================================================================
