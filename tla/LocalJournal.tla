------------------------------ MODULE LocalJournal ------------------------------
(***************************************************************************)
(* The durable dispatch journal of one local store                          *)
(* (civicgate/audit/local_journal.py): an append-only SQLite table, an OS   *)
(* lock on a sidecar file, and in every process that opened the store a     *)
(* LocalDispatchJournal object with its memory of the table.                *)
(*                                                                          *)
(* A write either commits and is acknowledged ("ok"), or raises without     *)
(* having committed ("lost"), or raises although it committed ("kept").     *)
(* A request stands for its uuid4 and a process for its generation uuid4.   *)
(* The module defines the handlers; LocalGateway calls them.                *)
(***************************************************************************)
EXTENDS Integers, Sequences, FiniteSets

CONSTANTS Processes,    \* the processes that will ever open the store
          Requests,     \* the request ids
          MaxEvents,    \* MAX_EVENTS: the row count at which the store is full
          NoProcess, NoRequest

ASSUME StoreAssumption == /\ MaxEvents \in Nat \ {0}
                          /\ NoProcess \notin Processes
                          /\ NoRequest \notin Requests

VARIABLES log,      \* the committed rows, oldest first
          owner,    \* the process that holds the owner lock
          journal   \* per process: its LocalDispatchJournal

Kinds == {"provision", "boot", "begin", "policy", "intent", "finish", "hold", "close"}

\* One row; decision and tripwire are read in "policy" rows, denials and hold in
\* "finish" rows.
Rows == [kind : Kinds, process : Processes \cup {NoProcess},
         request : Requests \cup {NoRequest}, denials : Nat, hold : BOOLEAN,
         decision : {"NONE", "PERMIT", "DENY", "REVIEW_REQUIRED"}, tripwire : BOOLEAN]

Row(k, p, r) == [kind |-> k, process |-> p, request |-> r, denials |-> 0,
                 hold |-> FALSE, decision |-> "NONE", tripwire |-> FALSE]

\* state: "new" before the constructor, "booting" between its replay and its boot row,
\* "open" in service, "closed" after close(), "gone" when the process has ended or the
\* constructor has raised.
Journals == [state : {"new", "booting", "open", "closed", "gone"}, held : BOOLEAN,
             denials : Nat, active : Requests \cup {NoRequest}, sequence : Nat]

Fresh(s) == [state |-> s, held |-> FALSE, denials |-> 0, active |-> NoRequest,
             sequence |-> 0]

\* provision_local_store(): the first row, written once, before any process starts.
JournalInit == /\ log = <<Row("provision", NoProcess, NoRequest)>>
               /\ owner = NoProcess
               /\ journal = [p \in Processes |-> Fresh("new")]

-------------------------------------------------------------------------------
\* The replay of the constructor, said of the whole table at once.
Indices(k) == {i \in DOMAIN log : log[i].kind = k}

\* The generation booted in row i has no close row before row n.
OpenSince(i, n) == \A j \in Indices("close") : ~(i < j /\ j < n)

OpenGeneration == \E i \in Indices("boot") : OpenSince(i, Len(log) + 1)

Pending == {r \in Requests : /\ \E i \in Indices("begin") : log[i].request = r
                             /\ \A i \in Indices("finish") : log[i].request # r}

HeldByRows == \/ Indices("hold") # {}
              \/ \E i \in Indices("finish") : log[i].hold
              \/ \E i, j \in Indices("boot") : i < j /\ OpenSince(i, j)

FinishedDenials == {0} \cup {log[i].denials : i \in Indices("finish")}

ReplayedDenials == CHOOSE d \in FinishedDenials : \A e \in FinishedDenials : e <= d

\* What the constructor refuses with RECOVERY_HOLD.
RecoveryHold == HeldByRows \/ Pending # {} \/ OpenGeneration

\* mutant: a finished request stays pending
ReplayRowKeepsPending(s, row) ==
    CASE row.kind = "boot"   -> [s EXCEPT !.held = @ \/ s.open, !.open = TRUE]
      [] row.kind = "close"  -> [s EXCEPT !.open = FALSE]
      [] row.kind = "begin"  -> [s EXCEPT !.pending = @ \cup {row.request}]
      [] row.kind = "hold" \/ row.hold -> [s EXCEPT !.held = TRUE]
      [] OTHER               -> s

\* The same replay as the constructor's loop, row by row.
ReplayState == [held |-> FALSE, open |-> FALSE, pending |-> {}, denials |-> 0]
ReplayRow(s, row) ==
    CASE row.kind = "boot"   -> [s EXCEPT !.held = @ \/ s.open, !.open = TRUE]
      [] row.kind = "close"  -> [s EXCEPT !.open = FALSE]
      [] row.kind = "begin"  -> [s EXCEPT !.pending = @ \cup {row.request}]
      [] row.kind = "finish" -> [s EXCEPT !.pending = @ \ {row.request},
                                          !.held = @ \/ row.hold,
                                          !.denials = IF row.denials > @
                                                      THEN row.denials ELSE @]
      [] row.kind = "hold"   -> [s EXCEPT !.held = TRUE]
      [] OTHER               -> s
Replay[n \in Nat] == IF n = 0 THEN ReplayState ELSE ReplayRow(Replay[n - 1], log[n])

-------------------------------------------------------------------------------
Outcomes == {"ok", "lost", "kept"}

\* What _append checks first: the object is usable, the store not full, and nobody
\* else has added a row since this object's last one.
CanAppend(p) == /\ journal[p].state \in {"booting", "open"}
                /\ journal[p].sequence < MaxEvents
                /\ Len(log) = journal[p].sequence

\* The table after an _append of row by process p with outcome o.
Write(p, row, o) == /\ o # "lost" => CanAppend(p)
                    /\ log' = IF o = "lost" THEN log ELSE Append(log, row)

\* mutant: a write that raised does not hold the journal
AppendedUnheld(j, o) == IF o = "ok" THEN [j EXCEPT !.sequence = @ + 1] ELSE j
\* The object after it: anything but an acknowledged commit holds it.
Appended(j, o) == IF o = "ok" THEN [j EXCEPT !.sequence = @ + 1]
                              ELSE [j EXCEPT !.held = TRUE]

SetJournal(p, j) == journal' = [journal EXCEPT ![p] = j]

\* The constructor up to its replay: the lock is taken or the process gives up; a store
\* that is full or replays to a hold is released again.
Recover(p) ==
    /\ journal[p].state = "new"
    /\ owner = NoProcess
    /\ IF RecoveryHold \/ Len(log) >= MaxEvents
       THEN SetJournal(p, Fresh("gone")) /\ UNCHANGED owner
       ELSE /\ SetJournal(p, [Fresh("booting") EXCEPT !.denials = ReplayedDenials,
                                                      !.sequence = Len(log)])
            /\ owner' = p
    /\ UNCHANGED log

\* The boot row; if it cannot be written the constructor releases the store and raises.
Boot(p, o) ==
    /\ journal[p].state = "booting"
    /\ Write(p, Row("boot", p, NoRequest), o)
    /\ IF o = "ok"
       THEN /\ SetJournal(p, [Appended(journal[p], o) EXCEPT !.state = "open"])
            /\ UNCHANGED owner
       ELSE SetJournal(p, Fresh("gone")) /\ owner' = NoProcess

\* mutant: a held journal still admits
AdmitsHeld(p) == journal[p].state = "open" /\ journal[p].active = NoRequest
\* admit(), but for the credential.
Admits(p) == /\ journal[p].state = "open"
             /\ ~journal[p].held
             /\ journal[p].active = NoRequest

\* begin(): the request is active once its row is acknowledged.
JournalBegin(p, r, o) ==
    LET j == Appended(journal[p], o) IN
    /\ Write(p, Row("begin", p, r), o)
    /\ SetJournal(p, IF o = "ok" THEN [j EXCEPT !.active = r] ELSE j)
    /\ UNCHANGED owner

\* policy().
JournalPolicy(p, r, decision, tripwire, o) ==
    /\ Write(p, [Row("policy", p, r) EXCEPT !.decision = decision, !.tripwire = tripwire], o)
    /\ SetJournal(p, Appended(journal[p], o))
    /\ UNCHANGED owner

\* intent(): the authority must be bound to the active request.
JournalIntent(p, r, o) ==
    /\ journal[p].active = r
    /\ Write(p, Row("intent", p, r), o)
    /\ SetJournal(p, Appended(journal[p], o))
    /\ UNCHANGED owner

\* mutant: an unknown outcome is recorded but the object stays in service
JournalFinishUnheld(p, r, denials, unknown, o) ==
    LET j == Appended(journal[p], o) IN
    /\ Write(p, [Row("finish", p, r) EXCEPT !.denials = denials, !.hold = unknown], o)
    /\ SetJournal(p, IF o = "ok" THEN [j EXCEPT !.denials = denials, !.active = NoRequest]
                     ELSE j)
    /\ UNCHANGED owner

\* finish(): an unknown outcome holds the journal, in its row and in memory.
JournalFinish(p, r, denials, unknown, o) ==
    LET j == Appended(journal[p], o) IN
    /\ Write(p, [Row("finish", p, r) EXCEPT !.denials = denials, !.hold = unknown], o)
    /\ SetJournal(p, IF o = "ok"
                     THEN [j EXCEPT !.denials = denials, !.held = @ \/ unknown,
                                    !.active = NoRequest]
                     ELSE j)
    /\ UNCHANGED owner

\* failed(): held in memory whatever becomes of the hold row.
JournalFailed(p, o) ==
    /\ Write(p, Row("hold", p, journal[p].active), o)
    /\ SetJournal(p, [Appended(journal[p], o) EXCEPT !.held = TRUE])
    /\ UNCHANGED owner

\* close() writes its row only when nothing is held or active.
Clean(p) == ~journal[p].held /\ journal[p].active = NoRequest

\* close(): whatever happens to the row, the object is closed and the lock released.
JournalClose(p, o) ==
    /\ journal[p].state = "open"
    /\ IF Clean(p) THEN Write(p, Row("close", p, NoRequest), o)
                   ELSE o = "lost" /\ UNCHANGED log
    /\ SetJournal(p, Fresh("closed"))
    /\ owner' = NoProcess

\* The process dies; the operating system drops its lock.
JournalCrash(p) ==
    /\ journal[p].state \in {"booting", "open", "closed"}
    /\ SetJournal(p, Fresh("gone"))
    /\ owner' = IF owner = p THEN NoProcess ELSE owner
    /\ UNCHANGED log
===============================================================================
