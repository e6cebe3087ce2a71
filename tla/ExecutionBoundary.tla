--------------------------- MODULE ExecutionBoundary ---------------------------
(***************************************************************************)
(* The process-local issuer and verifier of authority envelopes             *)
(* (civicgate/governance/execution.py, class ExecutionBoundary).            *)
(*                                                                          *)
(* evaluate() retains an envelope for every permitted request in the        *)
(* dictionary _issued, keyed by id(envelope), the address of the object;    *)
(* consume() pops the entry before it verifies anything.  An address is     *)
(* free again once neither the caller nor the dictionary refers to the      *)
(* object, so the model keeps objects and addresses apart.  A tool with its *)
(* schema-validated arguments is an element of Invocations; SHA-256 of a    *)
(* canonical text is modelled by the value it is the digest of.             *)
(***************************************************************************)
EXTENDS Integers, FiniteSets, Functions

CONSTANTS Envelopes,    \* the envelope objects the process will ever create
          Addresses,    \* memory addresses: the values of id()
          Requests,     \* request ids
          Invocations,  \* a registered tool with normalized arguments
          Contexts,     \* (require_judge, enable_agent_k, threshold, denials)
          Times,        \* the readings of the injected clock
          MaxAge,       \* max_age_seconds
          Capacity      \* MAX_OUTSTANDING_ENVELOPES

ASSUME TimeAssumption == Times \subseteq Nat /\ Times # {} /\ MaxAge \in Nat \ {0}
ASSUME MemoryAssumption == IsFiniteSet(Addresses) /\ Capacity \in Nat

VARIABLES
    now,        \* what _clock() returns next
    drifted,    \* the live registry or a schema differs from the snapshot
    object,     \* every envelope object created: its address and its fields
    held,       \* the envelopes a caller still refers to
    issued,     \* _issued: address -> retained entry
    presented,  \* history: the envelopes consume() was ever called with
    permits,    \* history: what the policy permitted when e was issued
    uses,       \* history: how often consume() returned e's binding
    verified    \* history: the call consume() let through on e

vars == <<now, drifted, object, held, issued, presented, permits, uses, verified>>
history == <<presented, permits, uses, verified>>

\* Fields of an AuthorityEnvelope and of its binding.
Content == [request : Requests, invocation : Invocations, context : Contexts,
            issuedAt : Nat, expiresAt : Nat]
\* _IssuedEnvelope.
Retained == [envelope : Envelopes, serialized : Content, context : Contexts,
             issuedAt : Nat, expiresAt : Nat]
\* An invocation under a policy context at a time: what was permitted or let through.
Call == [request : Requests, invocation : Invocations, context : Contexts, at : Times]

\* f is a dictionary with keys in S and values in T.
IsDictionary(f, S, T) == DOMAIN f \subseteq S /\ f \in [DOMAIN f -> T]
Extend(f, x, v) == [y \in DOMAIN f \cup {x} |-> IF y = x THEN v ELSE f[y]]

Init == /\ now \in Times
        /\ drifted = FALSE
        /\ object = [e \in {} |-> {}]
        /\ held = {}
        /\ issued = [a \in {} |-> {}]
        /\ presented = {}
        /\ permits = [e \in {} |-> {}]
        /\ uses = [e \in Envelopes |-> 0]
        /\ verified = [e \in {} |-> {}]

-------------------------------------------------------------------------------
\* Entries that survive the purge of expired ones at the start of an issuance.
Unexpired == {a \in DOMAIN issued : now < issued[a].expiresAt}

\* The request id an outstanding envelope is bound to, read from the envelope itself.
BoundTo(a) == object[issued[a].envelope].content.request

ReusedByHolder(r) == \E a \in Unexpired : /\ issued[a].envelope \in held  \* mutant
                                          /\ BoundTo(a) = r
Reused(r) == \E a \in Unexpired : BoundTo(a) = r
\* mutant: one more than the capacity is let in
FullBeyond == Cardinality(Unexpired) > Capacity
Full == Cardinality(Unexpired) >= Capacity

\* An address no live object occupies: none retained in the entries that are left,
\* none held by a caller.
FreeUnlessHeld(entries, a) == \A h \in held : object[h].address # a    \* mutant
Free(entries, a) == /\ a \notin entries
                    /\ \A h \in held : object[h].address # a

\* The fields of the envelope issued now.
NewContent(r, i, c) == [request |-> r, invocation |-> i, context |-> c,
                        issuedAt |-> now, expiresAt |-> now + MaxAge]

\* evaluate() when the policy permits the facts of invocation f: a new object e at
\* address a is retained and handed to the caller.  Any other decision, a drifted
\* registry or facts that describe another invocation leave the state unchanged.
Issue(e, a, r, f, i, c) ==
    /\ e \notin DOMAIN object
    /\ ~drifted
    /\ f = i                                    \* else POLICY_ARGUMENTS_MISMATCH
    /\ ~Reused(r)
    /\ ~Full
    /\ Free(Unexpired, a)
    /\ object' = Extend(object, e, [address |-> a, content |-> NewContent(r, i, c)])
    /\ issued' = Extend(Restrict(issued, Unexpired), a,
                    [envelope |-> e, serialized |-> NewContent(r, i, c), context |-> c,
                     issuedAt |-> now, expiresAt |-> now + MaxAge])
    /\ held' = held \cup {e}
    /\ permits' = Extend(permits, e, [request |-> r, invocation |-> f,
                                      context |-> c, at |-> now])
    /\ UNCHANGED <<now, drifted, presented, uses, verified>>

\* evaluate() on a permitted request that cannot be bound: the purge has happened
\* before REQUEST_ID_REUSED or ISSUANCE_CAPACITY_EXCEEDED is raised.
RefuseIssue(r) ==
    /\ ~drifted
    /\ Reused(r) \/ Full
    /\ issued' = Restrict(issued, Unexpired)
    /\ UNCHANGED <<now, drifted, object, held, history>>

-------------------------------------------------------------------------------
\* The entry found under id(e) is the one retained for this very object.
Known(e) == LET a == object[e].address
            IN  a \in DOMAIN issued /\ issued[a].envelope = e

\* mutant: the expiry instant itself still counts as fresh
VerifiesAtExpiry(e, r, i, c, clockReads) ==
    LET retained == issued[object[e].address]
        binding == object[e].content
    IN  /\ Known(e) /\ binding = retained.serialized /\ clockReads /\ ~drifted
        /\ now >= retained.issuedAt /\ now <= retained.expiresAt
        /\ r = binding.request /\ i = binding.invocation
        /\ c = retained.context /\ c = binding.context

\* mutant: the envelope is not compared with the text retained at issuance
VerifiesPresentFields(e, r, i, c, clockReads) ==
    LET retained == issued[object[e].address]
        binding == object[e].content
    IN  /\ Known(e) /\ clockReads /\ ~drifted
        /\ now >= retained.issuedAt /\ now < retained.expiresAt
        /\ r = binding.request /\ i = binding.invocation
        /\ c = retained.context /\ c = binding.context

\* The checks of consume() after the pop; clockReads says that _clock() returned a
\* finite number.
Verifies(e, r, i, c, clockReads) ==
    LET retained == issued[object[e].address]
        binding == object[e].content
    IN  /\ Known(e)
        /\ binding = retained.serialized
        /\ clockReads
        /\ now >= retained.issuedAt             \* else ENVELOPE_TIME_INVALID
        /\ now < retained.expiresAt             \* else ENVELOPE_EXPIRED
        /\ c = retained.context                 \* else POLICY_CONTEXT_MISMATCH
        /\ r = binding.request
        /\ c = binding.context
        /\ ~drifted                             \* else TOOL_REGISTRY_DRIFT
        /\ i = binding.invocation

\* mutant: the entry is marked as gone but stays in the dictionary
Tombstoned(e) == [issued EXCEPT ![object[e].address] = [tombstone |-> e]]

\* _issued.pop(id(envelope), None): whatever is retained at that address is gone.
Popped(e) == Restrict(issued, DOMAIN issued \ {object[e].address})

\* consume() returns the binding.
Consume(e, r, i, c, clockReads) ==
    /\ e \in held
    /\ Verifies(e, r, i, c, clockReads)
    /\ issued' = Popped(e)
    /\ uses' = [uses EXCEPT ![e] = @ + 1]
    /\ verified' = Extend(verified, e, [request |-> r, invocation |-> i,
                                        context |-> c, at |-> now])
    /\ presented' = presented \cup {e}
    /\ UNCHANGED <<now, drifted, object, held, permits>>

\* mutant: the entry is popped only once everything was verified
RejectKeeps(e, r, i, c, clockReads) ==
    /\ e \in held
    /\ ~Verifies(e, r, i, c, clockReads)
    /\ presented' = presented \cup {e}
    /\ UNCHANGED <<now, drifted, object, held, issued, permits, uses, verified>>

\* consume() raises: the entry it popped stays burned.
Reject(e, r, i, c, clockReads) ==
    /\ e \in held
    /\ ~Verifies(e, r, i, c, clockReads)
    /\ issued' = Popped(e)
    /\ presented' = presented \cup {e}
    /\ UNCHANGED <<now, drifted, object, held, permits, uses, verified>>

-------------------------------------------------------------------------------
\* The caller makes an object of its own with the fields of another envelope and
\* possibly another invocation (dataclasses.replace).
Copy(e, source, a, i) ==
    /\ e \notin DOMAIN object
    /\ source \in held
    /\ Free(DOMAIN issued, a)
    /\ object' = Extend(object, e,
                    [address |-> a,
                     content |-> [object[source].content EXCEPT !.invocation = i]])
    /\ held' = held \cup {e}
    /\ UNCHANGED <<now, drifted, issued, history>>

\* Fields of a held envelope are overwritten in place (object.__setattr__), the way the
\* tests do it: arguments and times.  No code overwrites a request id.
Overwrite(e, i, t) ==
    /\ e \in held
    /\ object' = [object EXCEPT ![e].content =
                     [@ EXCEPT !.invocation = i, !.expiresAt = t]]
    /\ UNCHANGED <<now, drifted, held, issued, history>>

\* The call that held the envelope ends; an object nothing refers to is freed.
Release(e) ==
    /\ e \in held
    /\ held' = held \ {e}
    /\ UNCHANGED <<now, drifted, object, issued, history>>

\* The clock moves, backwards too: the code takes any finite reading.
SetClock(t) ==
    /\ t # now
    /\ now' = t
    /\ UNCHANGED <<drifted, object, held, issued, history>>

\* The registry or a model's schema is changed, or restored, under the boundary.
Drift ==
    /\ drifted' = ~drifted
    /\ UNCHANGED <<now, object, held, issued, history>>

Next ==
    \/ \E e \in Envelopes, a \in Addresses, r \in Requests, f, i \in Invocations,
          c \in Contexts : Issue(e, a, r, f, i, c)
    \/ \E r \in Requests : RefuseIssue(r)
    \/ \E e \in Envelopes, r \in Requests, i \in Invocations, c \in Contexts,
          clockReads \in BOOLEAN : Consume(e, r, i, c, clockReads)
    \/ \E e \in Envelopes, r \in Requests, i \in Invocations, c \in Contexts,
          clockReads \in BOOLEAN : Reject(e, r, i, c, clockReads)
    \/ \E e, source \in Envelopes, a \in Addresses, i \in Invocations :
          Copy(e, source, a, i)
    \/ \E e \in Envelopes, i \in Invocations, t \in Times : Overwrite(e, i, t)
    \/ \E e \in Envelopes : Release(e)
    \/ \E t \in Times : SetClock(t)
    \/ Drift

Spec == Init /\ [][Next]_vars

-------------------------------------------------------------------------------
TypeOK ==
    /\ now \in Times
    /\ drifted \in BOOLEAN
    /\ IsDictionary(object, Envelopes, [address : Addresses, content : Content])
    /\ held \subseteq DOMAIN object
    /\ IsDictionary(issued, Addresses, Retained)
    /\ IsDictionary(permits, Envelopes, Call)
    /\ presented \subseteq Envelopes
    /\ uses \in [Envelopes -> Nat]
    /\ IsDictionary(verified, Envelopes, Call)

\* A call that consume() let through is, in every field, the call the policy had
\* permitted for that envelope: facts, arguments and policy context are compared at
\* issuance, and everything again at consumption (evaluate, consume).
ExactBinding ==
    \A e \in DOMAIN verified :
        /\ e \in DOMAIN permits
        /\ verified[e].request = permits[e].request
        /\ verified[e].invocation = permits[e].invocation
        /\ verified[e].context = permits[e].context

\* No envelope is used before the time it was issued at or once max_age_seconds have
\* passed, however the clock moves and whatever its expires_at field says by then.
FreshWhenUsed ==
    \A e \in DOMAIN verified :
        /\ permits[e].at <= verified[e].at
        /\ verified[e].at < permits[e].at + MaxAge

\* Two outstanding authorizations never share a request id (REQUEST_ID_REUSED), even
\* though ids become usable again when an authorization expires or is consumed.
OneAuthorizationPerRequest ==
    \A a, b \in DOMAIN issued :
        issued[a].serialized.request = issued[b].serialized.request => a = b

\* The entry at address a survives the step / its envelope is presented in the step, and
\* is the only object a caller holds at that address.
Stays(a) == a \in DOMAIN issued' /\ issued'[a] = issued[a]
OwnPresented(a) == /\ issued[a].envelope \in held \cap presented'
                   /\ \A h \in held : object[h].address = a => h = issued[a].envelope

\* What may happen in a step to the entries of _issued.
RemovesRightly == \A a \in DOMAIN issued :
                     Stays(a) \/ now >= issued[a].expiresAt \/ OwnPresented(a)

\* An authorization leaves _issued only because it expired or because its own
\* envelope was presented.  As entries are keyed by id(), this needs that the
\* dictionary keeps its objects alive: no other object can come to their address.
OnlyOwnerOrExpiryRemoves == [][RemovesRightly]_vars

\* Whether the verification of an envelope fails or succeeds, consume() has popped
\* it: an envelope that was presented once is never verified afterwards.
PresentedIsSpent ==
    [][\A e \in Envelopes : uses'[e] # uses[e] => e \notin presented]_vars

\* The permits that can still be used: those of the retained envelopes.
Outstanding == {issued[a].envelope : a \in DOMAIN issued}

Ledger == INSTANCE PermitLedger WITH
            Permits <- Envelopes, granted <- DOMAIN permits,
            open <- Outstanding, uses <- uses

\* The boundary implements the abstract ledger of single-use permits: one use at
\* most, only of what was granted and is still outstanding, a failed verification
\* spends the permit, and at most Capacity of them are outstanding.
ImplementsLedger == Ledger!Spec
===============================================================================
