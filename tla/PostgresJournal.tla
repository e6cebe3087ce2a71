---------------------------- MODULE PostgresJournal ----------------------------
(***************************************************************************)
(* The dispatch journal of one execution domain in PostgreSQL               *)
(* (civicgate/audit/postgres_journal.py and postgres_history.py): the rows  *)
(* of the domain, the advisory lock of its owner, the backend sessions, and *)
(* the PostgresDispatchJournal objects with their memory of the rows.       *)
(*                                                                          *)
(* Every transaction locks the state row of the domain, replays all rows,   *)
(* and updates under the state it has read; it is one step here.  It        *)
(* commits and is acknowledged ("ok"), raises without having committed      *)
(* ("lost"), or raises with its COMMIT on the way ("sent"): the session may *)
(* then still commit after the object has given up.  _load() raises unless  *)
(* the state row is the replay of the rows; both change in one transaction, *)
(* so the state row stands for the replay here.  Denials are left to        *)
(* LocalJournal.                                                            *)
(* The module defines the handlers; GuardedGateway calls them.              *)
(***************************************************************************)
EXTENDS Integers, Sequences

CONSTANTS Owners,       \* journal objects, each with an owner_id and a session
          Requests,     \* the request ids
          MaxEvents,    \* MAX_EVENTS: a longer history does not replay
          NoOwner, NoRequest, NoRow

ASSUME DomainAssumption == /\ MaxEvents \in Nat \ {0}
                           /\ NoOwner \notin Owners
                           /\ NoRequest \notin Requests

VARIABLES log,          \* the committed rows of the domain, oldest first
          domain,       \* the domain_state row: the LedgerState after these rows
          lock,         \* the owner whose session holds the advisory lock
          session,      \* per owner: its backend session
          commit,       \* per owner: the row of a COMMIT without an answer
          journal       \* per owner: its object

Kinds == {"provision", "boot", "begin", "policy", "intent", "finish", "hold", "close"}

\* What the attempts of a finish row say: nothing was dispatched; request and response
\* are confirmed; neither is known; or evidence that the history does not accept, such
\* as two records or a timeout after the headers.
Evidence == {"none", "confirmed", "unknown", "contradictory"}

Rows == [kind : Kinds, owner : Owners \cup {NoOwner}, epoch : Nat,
         request : Requests \cup {NoRequest},
         bound : BOOLEAN,           \* "policy": a permit with its binding issued
         evidence : Evidence,       \* "finish"
         hold : BOOLEAN]            \* "finish"

ASSUME RowAssumption == NoRow \notin Rows

Row(k, o, n, r) == [kind |-> k, owner |-> o, epoch |-> n, request |-> r,
                    bound |-> FALSE, evidence |-> "none", hold |-> FALSE]

\* A request is active from its begin row to its finish row; last is the kind of the
\* last row.
LedgerStates == [epoch : Nat, owner : Owners \cup {NoOwner}, open : BOOLEAN,
                 held : BOOLEAN, active : Requests \cup {NoRequest},
                 phase : {"none", "begin", "policy", "intent"}, bound : BOOLEAN,
                 seen : SUBSET Requests, last : Kinds, sequence : Nat]

\* LedgerState(): before any row.
LedgerState == [epoch |-> 0, owner |-> NoOwner, open |-> FALSE, held |-> FALSE,
                active |-> NoRequest, phase |-> "none", bound |-> FALSE, seen |-> {},
                last |-> "provision", sequence |-> 0]

\* known is _state, the LedgerState that the object remembers.
Journals == [state : {"new", "open", "closed", "gone"}, poisoned : BOOLEAN,
             known : LedgerStates]

\* "live" while the client is connected, "orphan" when the client is gone and the server
\* has not noticed, "gone" when the server has dropped its locks.
Sessions == {"none", "live", "orphan", "gone"}

JournalInit ==
    /\ log = <<Row("provision", NoOwner, 0, NoRequest)>>
    /\ domain = [LedgerState EXCEPT !.sequence = 1]
    /\ lock = NoOwner
    /\ session = [o \in Owners |-> "none"]
    /\ commit = [o \in Owners |-> NoRow]
    /\ journal = [o \in Owners |-> [state |-> "new", poisoned |-> FALSE, known |-> LedgerState]]

-------------------------------------------------------------------------------
\* _finish(): no dispatch without an intent, none of unknown outcome without a hold, and
\* no evidence beyond one attempt that ended one way.
FinishValid(s, row) ==
    /\ s.phase \in IF row.evidence = "none" THEN {"policy", "intent"} ELSE {"intent"}
    /\ row.evidence # "contradictory"
    /\ row.evidence = "unknown" => row.hold

\* The transitions that replay() accepts.
Accepts(s, row) ==
    IF row.kind = "boot"
    THEN /\ s.last \in {"provision", "close"}
         /\ ~s.held /\ ~s.open /\ s.active = NoRequest
         /\ row.epoch = s.epoch + 1
    ELSE /\ s.open /\ row.epoch = s.epoch /\ row.owner = s.owner
         /\ s.held => row.kind = "hold"
         /\ row.kind \in {"close", "begin"} => s.active = NoRequest
         /\ row.kind = "begin" => row.request \notin s.seen
         /\ row.kind \notin {"close", "begin"} => row.request = s.active
         /\ row.kind \in {"policy", "intent", "finish"} => s.active # NoRequest
         /\ row.kind = "policy" => s.phase = "begin"
         /\ row.kind = "intent" => s.phase = "policy" /\ s.bound
         /\ row.kind = "finish" => FinishValid(s, row)

\* mutant: the hold of a finish row is not replayed
ApplyForgetsHold(s, row) ==
    LET t == [s EXCEPT !.last = row.kind, !.sequence = @ + 1] IN
    CASE row.kind = "boot"   -> [t EXCEPT !.epoch = row.epoch, !.owner = row.owner,
                                          !.open = TRUE]
      [] row.kind = "close"  -> [t EXCEPT !.owner = NoOwner, !.open = FALSE]
      [] row.kind = "begin"  -> [t EXCEPT !.active = row.request, !.phase = "begin",
                                          !.seen = @ \cup {row.request}]
      [] row.kind = "policy" -> [t EXCEPT !.phase = "policy", !.bound = row.bound]
      [] row.kind = "intent" -> [t EXCEPT !.phase = "intent"]
      [] row.kind = "finish" -> [t EXCEPT !.active = NoRequest, !.phase = "none",
                                          !.bound = FALSE]
      [] row.kind = "hold"   -> [t EXCEPT !.held = TRUE]
      [] OTHER               -> t

\* The state after a row.
Apply(s, row) ==
    LET t == [s EXCEPT !.last = row.kind, !.sequence = @ + 1] IN
    CASE row.kind = "boot"   -> [t EXCEPT !.epoch = row.epoch, !.owner = row.owner,
                                          !.open = TRUE]
      [] row.kind = "close"  -> [t EXCEPT !.owner = NoOwner, !.open = FALSE]
      [] row.kind = "begin"  -> [t EXCEPT !.active = row.request, !.phase = "begin",
                                          !.seen = @ \cup {row.request}]
      [] row.kind = "policy" -> [t EXCEPT !.phase = "policy", !.bound = row.bound]
      [] row.kind = "intent" -> [t EXCEPT !.phase = "intent"]
      [] row.kind = "finish" -> [t EXCEPT !.held = @ \/ row.hold, !.active = NoRequest,
                                          !.phase = "none", !.bound = FALSE]
      [] row.kind = "hold"   -> [t EXCEPT !.held = TRUE]
      [] OTHER               -> t

-------------------------------------------------------------------------------
Outcomes == {"ok", "lost", "sent"}

\* The property held, which also refuses an object whose connection was released.
Held(o) == journal[o].poisoned \/ journal[o].known.held

\* _release(): the client's end of the session is closed.
Released(o) == session' = [session EXCEPT ![o] = IF @ = "live" THEN "orphan" ELSE @]

Becomes(o, j) == journal' = [journal EXCEPT ![o] = j]
Finished(state) == [state |-> state, poisoned |-> TRUE, known |-> LedgerState]
Poisoned(o) == [journal[o] EXCEPT !.poisoned = TRUE]

\* _stop().
Stopped(o) == /\ Becomes(o, Poisoned(o))
              /\ Released(o)

\* _run() up to its event: the object is in service, its session answers, and the state
\* row is as it knows it, of its own generation.
CanRun(o) == /\ journal[o].state = "open" /\ ~Held(o)
             /\ session[o] = "live"
             /\ journal[o].known = domain
             /\ domain.open /\ domain.owner = o

\* mutant: one row more than the history may have
TransactFull(o, row, outcome) ==
    /\ outcome # "lost" => Accepts(domain, row) /\ Len(log) <= MaxEvents
    /\ log' = IF outcome = "ok" THEN Append(log, row) ELSE log
    /\ domain' = IF outcome = "ok" THEN Apply(domain, row) ELSE domain
    /\ commit' = [commit EXCEPT ![o] = IF outcome = "sent" THEN row ELSE @]

\* _append(), and the COMMITs on the way after a transaction of o with this row.
Transact(o, row, outcome) ==
    /\ outcome # "lost" => Accepts(domain, row) /\ Len(log) < MaxEvents
    /\ log' = IF outcome = "ok" THEN Append(log, row) ELSE log
    /\ domain' = IF outcome = "ok" THEN Apply(domain, row) ELSE domain
    /\ commit' = [commit EXCEPT ![o] = IF outcome = "sent" THEN row ELSE @]

\* mutant: an object whose COMMIT was not answered stays in service
RunUnstopped(o, row, outcome) ==
    /\ outcome # "lost" => CanRun(o)
    /\ Transact(o, row, outcome)
    /\ IF outcome = "ok"
       THEN Becomes(o, [journal[o] EXCEPT !.known = domain']) /\ UNCHANGED session
       ELSE Released(o) /\ UNCHANGED journal
    /\ UNCHANGED lock

\* _run(row).
Run(o, row, outcome) ==
    /\ outcome # "lost" => CanRun(o)
    /\ Transact(o, row, outcome)
    /\ IF outcome = "ok"
       THEN Becomes(o, [journal[o] EXCEPT !.known = domain']) /\ UNCHANGED session
       ELSE Stopped(o)
    /\ UNCHANGED lock

\* The constructor: the advisory lock, a replay that does not hold, and a boot row of the
\* next epoch.  One that is refused leaves nothing behind and is not a step here.
Boot(o, outcome) ==
    LET row == Row("boot", o, domain.epoch + 1, NoRequest) IN
    /\ journal[o].state = "new"
    /\ lock = NoOwner
    /\ \A q \in Owners : commit[q] = NoRow      \* FOR UPDATE waits for it, then times out
    /\ ~domain.held /\ domain.active = NoRequest /\ ~domain.open
    /\ Transact(o, row, outcome)
    /\ lock' = o
    /\ session' = [session EXCEPT ![o] = IF outcome = "ok" THEN "live" ELSE "orphan"]
    /\ Becomes(o, IF outcome = "ok"
                  THEN [state |-> "open", poisoned |-> FALSE, known |-> domain']
                  ELSE Finished("gone"))

\* _event(): a row of this object's generation.
Event(kind, o, r) == Row(kind, o, journal[o].known.epoch, r)

\* admit(): an empty transaction; whatever it refuses stops the journal.
JournalAdmit(o, admitted) ==
    /\ IF admitted THEN /\ CanRun(o) /\ journal[o].known.active = NoRequest
                        /\ UNCHANGED <<journal, session>>
       ELSE Stopped(o)
    /\ UNCHANGED <<log, domain, lock, commit>>

\* failed(): a hold row if the object is still in service; then it never is again.
JournalFailed(o, outcome) ==
    /\ outcome # "lost" => CanRun(o)
    /\ Transact(o, Event("hold", o, journal[o].known.active), outcome)
    /\ Becomes(o, [Poisoned(o) EXCEPT !.known = IF outcome = "ok" THEN domain' ELSE @])
    /\ Released(o)
    /\ UNCHANGED lock

\* close(): a close row only if nothing is held or active; closed and released anyway.
\* What the object remembers is not read again.
JournalClose(o, outcome) ==
    /\ journal[o].state = "open"
    /\ outcome # "lost" => CanRun(o) /\ journal[o].known.active = NoRequest
    /\ Transact(o, Event("close", o, NoRequest), outcome)
    /\ Becomes(o, Finished("closed"))
    /\ Released(o)
    /\ UNCHANGED lock

-------------------------------------------------------------------------------
\* The process dies; its session is orphaned.
JournalCrash(o) ==
    /\ journal[o].state \in {"open", "closed"}
    /\ Becomes(o, Finished("gone"))
    /\ Released(o)
    /\ UNCHANGED <<log, domain, lock, commit>>

\* The server ends an orphan, whose COMMIT has arrived (kept) or not, or a session whose
\* client does not know it yet.  Its locks go with it.
SessionEnds(o, kept) ==
    /\ session[o] \in {"live", "orphan"}
    /\ kept => commit[o] # NoRow
    /\ log' = IF kept THEN Append(log, commit[o]) ELSE log
    /\ domain' = IF kept THEN Apply(domain, commit[o]) ELSE domain
    /\ commit' = [commit EXCEPT ![o] = NoRow]
    /\ session' = [session EXCEPT ![o] = "gone"]
    /\ lock' = IF lock = o THEN NoOwner ELSE lock
    /\ UNCHANGED journal

\* The advisory lock is lost although the session goes on: a pooler between the two
\* has changed the backend, or somebody has unlocked it.
LockLost(o) == /\ lock = o
               /\ lock' = NoOwner
               /\ UNCHANGED <<log, domain, session, commit, journal>>
===============================================================================
