--------------------------- MODULE GuardedGatewayProofs ---------------------------
(***************************************************************************)
(* Theorems about PostgresJournal and GuardedGateway, for any number of      *)
(* owners, requests and rows.  The state row says what the rows say          *)
(* (DomainInv, RequestInv); a transaction appends one row that it accepts,   *)
(* now or, if its COMMIT is on the way, later; and while a call is between   *)
(* its begin and its finish row, only its own rows can change the domain.    *)
(***************************************************************************)
EXTENDS GuardedGateway, TLAPS

\* Rows that hold the domain.
Holds(row) == row.kind = "hold" \/ row.hold

\* All intents of r are of the present epoch.
IntentsNow(r) == \A i \in DOMAIN log :
                    log[i].kind = "intent" /\ log[i].request = r => log[i].epoch = domain.epoch

\* The state row and the rows of one request.
RequestInv(r) ==
  /\ Recorded("begin", r) <=> r \in domain.seen
  /\ Recorded("intent", r) => \/ domain.active = r /\ domain.phase = "intent"
                              \/ Recorded("finish", r)
  /\ Recorded("finish", r) => r \in domain.seen /\ domain.active # r
  /\ domain.active = r => /\ r \in domain.seen
                          /\ domain.phase = "intent" => Recorded("intent", r)
                          /\ IntentsNow(r)

\* The state row and the last row.
DomainInv ==
  /\ domain.sequence = Len(log)
  /\ domain.held <=> \E i \in DOMAIN log : Holds(log[i])
  /\ domain.active = NoRequest <=> domain.phase = "none"
  /\ domain.active # NoRequest => domain.open
  /\ domain.phase = "intent" /\ ~domain.held =>
       log[Len(log)].kind = "intent" /\ log[Len(log)].request = domain.active

\* What has left was intended; what is finished was answered, or holds; and what may
\* still arrive was intended in the present epoch.
SentInv(r) ==
  /\ r \in sent => Recorded("intent", r)
  /\ r \in sent /\ Recorded("finish", r) => r \in answered \/ domain.held
  /\ r \in sent \ arrived => IntentsNow(r)

\* No COMMIT is on its way.
Quiet == \A o \in Owners : commit[o] = NoRow

\* What the gateways write: a finish row without a hold is of a request that was
\* answered or has not left.
Proper(row) ==
  /\ row \in Rows /\ row.kind # "provision"
  /\ row.kind = "begin" => row.request \in Requests
  /\ row.hold => row.kind = "finish"
  /\ row.kind = "finish" /\ row.request \in sent => row.request \in answered \/ row.hold

\* A COMMIT on its way is the only one, and will be accepted.
PendingInv(o) ==
  commit[o] # NoRow => /\ Proper(commit[o]) /\ Accepts(domain, commit[o])
                       /\ Len(log) < MaxEvents
                       /\ \A q \in Owners \ {o} : commit[q] = NoRow

\* An object that was not stopped knows the state row, which is its own.
InService(o) == journal[o].state = "open" /\ ~journal[o].poisoned
JournalInv(o) ==
  InService(o) => journal[o].known = domain /\ domain.open /\ domain.owner = o /\ Quiet

\* The points of a call whose request is active.
Active == {"begun", "permitted", "intended", "executing", "delegated", "sent", "settled"}

\* A call: the state row is as far as it is, and its guard knows what has left.
CallInv(r) ==
  LET c == call[r] IN
  /\ c.owner = NoOwner <=> c.at \in {"idle", "ended"}
  /\ c.at \in Active => /\ domain.active = r /\ domain.owner = c.owner
                        /\ ~domain.held /\ Quiet
  /\ c.at \in {"begun", "permitted", "intended", "delegated"} => r \notin sent
  /\ c.at \in {"intended", "executing", "delegated", "sent"} => domain.phase = "intent"
  /\ c.at = "executing" /\ r \in sent => r \in delegated[c.owner]
  /\ c.at \in {"delegated", "sent"} => r \in delegated[c.owner]
  /\ c.at = "settled" /\ c.evidence \in {"none", "confirmed"} /\ r \in sent => r \in answered

\* A gateway runs one call at a time.
OneCall == \A r, s \in Requests :
             call[r].owner = call[s].owner /\ call[r].owner # NoOwner => r = s

IInv == /\ TypeOK /\ DomainInv /\ OneCall
        /\ \A o \in Owners : PendingInv(o) /\ JournalInv(o)
        /\ \A r \in Requests : RequestInv(r) /\ SentInv(r) /\ CallInv(r)
-------------------------------------------------------------------------------
\* The rows with one more row.
LEMMA AppendedRows ==
  ASSUME log \in Seq(Rows), NEW row \in Rows, log' = Append(log, row)
  PROVE  /\ log' \in Seq(Rows) /\ Len(log) \in Nat /\ Len(log') = Len(log) + 1
         /\ log'[Len(log')] = row
         /\ \A k, r : Recorded(k, r)' <=> Recorded(k, r) \/ (row.kind = k /\ row.request = r)
         /\ (\E i \in DOMAIN log' : Holds(log'[i])) <=>
              (\E i \in DOMAIN log : Holds(log[i])) \/ Holds(row)
         /\ \A r, n :
              (\A i \in DOMAIN log' : log'[i].kind = "intent" /\ log'[i].request = r
                                        => log'[i].epoch = n) <=>
              /\ \A i \in DOMAIN log : log[i].kind = "intent" /\ log[i].request = r
                                         => log[i].epoch = n
              /\ row.kind = "intent" /\ row.request = r => row.epoch = n
<1>1. /\ log' \in Seq(Rows) /\ Len(log) \in Nat /\ Len(log') = Len(log) + 1
      /\ \A i \in 1..Len(log) : log'[i] = log[i]
      /\ log'[Len(log) + 1] = row
      /\ DOMAIN log = 1..Len(log) /\ DOMAIN log' = 1..(Len(log) + 1)
  OBVIOUS
<1>2. \A i : i \in DOMAIN log' <=> i \in DOMAIN log \/ i = Len(log) + 1
  BY <1>1
<1>3. \A k, r : Recorded(k, r)' <=> Recorded(k, r) \/ (row.kind = k /\ row.request = r)
  BY <1>1, <1>2 DEF Recorded
<1>4. (\E i \in DOMAIN log' : Holds(log'[i])) <=>
        (\E i \in DOMAIN log : Holds(log[i])) \/ Holds(row)
  BY <1>1, <1>2
<1>5. ASSUME NEW r, NEW n
      PROVE  (\A i \in DOMAIN log' : log'[i].kind = "intent" /\ log'[i].request = r
                                        => log'[i].epoch = n) <=>
              /\ \A i \in DOMAIN log : log[i].kind = "intent" /\ log[i].request = r
                                         => log[i].epoch = n
              /\ row.kind = "intent" /\ row.request = r => row.epoch = n
  BY <1>1, <1>2
<1> QED BY <1>1, <1>3, <1>4, <1>5

\* The state after a row, field by field.
LEMMA AppliedFields ==
  ASSUME NEW s \in LedgerStates, NEW row \in Rows
  PROVE  LET t == Apply(s, row)
             k == row.kind
         IN
         /\ t.last = k /\ t.sequence = s.sequence + 1
         /\ t.epoch = IF k = "boot" THEN row.epoch ELSE s.epoch
         /\ t.owner = IF k = "boot" THEN row.owner ELSE IF k = "close" THEN NoOwner ELSE s.owner
         /\ t.open = IF k = "boot" THEN TRUE ELSE IF k = "close" THEN FALSE ELSE s.open
         /\ t.held = IF k = "hold" THEN TRUE
                     ELSE IF k = "finish" THEN s.held \/ row.hold ELSE s.held
         /\ t.active = IF k = "begin" THEN row.request
                       ELSE IF k = "finish" THEN NoRequest ELSE s.active
         /\ t.phase = IF k \in {"begin", "policy", "intent"} THEN k
                      ELSE IF k = "finish" THEN "none" ELSE s.phase
         /\ t.bound = IF k = "policy" THEN row.bound ELSE IF k = "finish" THEN FALSE ELSE s.bound
         /\ t.seen = IF k = "begin" THEN s.seen \cup {row.request} ELSE s.seen
         /\ t = [epoch |-> t.epoch, owner |-> t.owner, open |-> t.open, held |-> t.held,
                 active |-> t.active, phase |-> t.phase, bound |-> t.bound, seen |-> t.seen,
                 last |-> t.last, sequence |-> t.sequence]
<1> DEFINE u == [s EXCEPT !.last = row.kind, !.sequence = @ + 1]
<1>1. row.kind \in Kinds
  BY DEF Rows
<1>2. CASE row.kind = "boot"
  <2>1. Apply(s, row) = [u EXCEPT !.epoch = row.epoch, !.owner = row.owner, !.open = TRUE]
    BY <1>2 DEF Apply
  <2> QED BY <1>2, <2>1 DEF LedgerStates
<1>3. CASE row.kind = "close"
  <2>1. Apply(s, row) = [u EXCEPT !.owner = NoOwner, !.open = FALSE]
    BY <1>3 DEF Apply
  <2> QED BY <1>3, <2>1 DEF LedgerStates
<1>4. CASE row.kind = "begin"
  <2>1. Apply(s, row) = [u EXCEPT !.active = row.request, !.phase = "begin",
                                  !.seen = @ \cup {row.request}]
    BY <1>4 DEF Apply
  <2> QED BY <1>4, <2>1 DEF LedgerStates
<1>5. CASE row.kind = "policy"
  <2>1. Apply(s, row) = [u EXCEPT !.phase = "policy", !.bound = row.bound]
    BY <1>5 DEF Apply
  <2> QED BY <1>5, <2>1 DEF LedgerStates
<1>6. CASE row.kind = "intent"
  <2>1. Apply(s, row) = [u EXCEPT !.phase = "intent"]
    BY <1>6 DEF Apply
  <2> QED BY <1>6, <2>1 DEF LedgerStates
<1>7. CASE row.kind = "finish"
  <2>1. Apply(s, row) = [u EXCEPT !.held = @ \/ row.hold, !.active = NoRequest,
                                  !.phase = "none", !.bound = FALSE]
    BY <1>7 DEF Apply
  <2> QED BY <1>7, <2>1 DEF LedgerStates
<1>8. CASE row.kind = "hold"
  <2>1. Apply(s, row) = [u EXCEPT !.held = TRUE]
    BY <1>8 DEF Apply
  <2> QED BY <1>8, <2>1 DEF LedgerStates
<1>9. CASE row.kind = "provision"
  <2>1. Apply(s, row) = u
    BY <1>9 DEF Apply
  <2> QED BY <1>9, <2>1 DEF LedgerStates
<1> QED BY <1>1, <1>2, <1>3, <1>4, <1>5, <1>6, <1>7, <1>8, <1>9 DEF Kinds

\* What a row that is accepted finds, and makes of the state row.
LEMMA Applied ==
  ASSUME NEW s \in LedgerStates, NEW row \in Rows, row.kind # "provision",
         row.kind = "begin" => row.request \in Requests, Accepts(s, row)
  PROVE  LET t == Apply(s, row) IN
         /\ t \in LedgerStates /\ t.sequence = s.sequence + 1
         /\ row.kind = "boot" => /\ t.open /\ t.owner = row.owner /\ ~s.open
                                 /\ ~s.held /\ s.active = NoRequest
         /\ row.kind # "boot" => /\ t.epoch = s.epoch /\ s.open
                                 /\ row.epoch = s.epoch /\ row.owner = s.owner
         /\ row.kind \notin {"boot", "close"} => t.open /\ t.owner = s.owner
         /\ row.kind = "close" => s.active = NoRequest
         /\ row.kind = "begin" => /\ s.active = NoRequest /\ row.request \notin s.seen
                                  /\ t.active = row.request /\ t.phase = "begin"
                                  /\ t.seen = s.seen \cup {row.request}
         /\ row.kind # "begin" => t.seen = s.seen
         /\ row.kind = "policy" => s.phase = "begin" /\ t.phase = "policy"
         /\ row.kind = "intent" => s.phase = "policy" /\ t.phase = "intent"
         /\ row.kind \in {"policy", "intent", "finish"} =>
              row.request = s.active /\ s.active # NoRequest
         /\ row.kind = "hold" => row.request = s.active
         /\ row.kind \in {"policy", "intent"} => t.active = s.active
         /\ row.kind = "finish" => /\ t.active = NoRequest /\ t.phase = "none"
                                   /\ (t.held <=> s.held \/ row.hold)
                                   /\ row.evidence # "contradictory"
         /\ row.kind = "hold" => t.held
         /\ row.kind \notin {"finish", "hold"} => t.held = s.held
         /\ row.kind \in {"boot", "close", "hold"} => t.active = s.active /\ t.phase = s.phase
         /\ row.kind # "hold" => ~s.held
<1> DEFINE t == Apply(s, row)
<1>1. t \in LedgerStates
  <2>0. /\ s.epoch \in Nat /\ s.owner \in Owners \cup {NoOwner} /\ s.open \in BOOLEAN
        /\ s.held \in BOOLEAN /\ s.active \in Requests \cup {NoRequest} /\ s.bound \in BOOLEAN
        /\ s.phase \in {"none", "begin", "policy", "intent"} /\ s.seen \subseteq Requests
        /\ s.sequence \in Nat
        /\ row.kind \in Kinds /\ row.epoch \in Nat /\ row.owner \in Owners \cup {NoOwner}
        /\ row.request \in Requests \cup {NoRequest} /\ row.bound \in BOOLEAN
        /\ row.hold \in BOOLEAN
    BY DEF LedgerStates, Rows
  <2>1. t.epoch \in Nat /\ t.owner \in Owners \cup {NoOwner} /\ t.open \in BOOLEAN
    BY <2>0, AppliedFields
  <2>2. t.last \in Kinds /\ t.sequence \in Nat
    <3>1. t.last = row.kind /\ t.sequence = s.sequence + 1
      BY AppliedFields
    <3> QED BY <2>0, <3>1
  <2>6. t.held \in BOOLEAN
    <3>1. t.held = IF row.kind = "hold" THEN TRUE
                   ELSE IF row.kind = "finish" THEN s.held \/ row.hold ELSE s.held
      BY AppliedFields
    <3> QED BY <2>0, <3>1, Zenon
  <2>4. t.active \in Requests \cup {NoRequest} /\ t.bound \in BOOLEAN
    BY <2>0, AppliedFields
  <2>5. t.phase \in {"none", "begin", "policy", "intent"}
    BY <2>0, AppliedFields
  <2>7. t.seen \subseteq Requests
    <3>1. t.seen = IF row.kind = "begin" THEN s.seen \cup {row.request} ELSE s.seen
      BY AppliedFields
    <3> QED BY <2>0, <3>1
  <2>3. t = [epoch |-> t.epoch, owner |-> t.owner, open |-> t.open, held |-> t.held,
             active |-> t.active, phase |-> t.phase, bound |-> t.bound, seen |-> t.seen,
             last |-> t.last, sequence |-> t.sequence]
    BY AppliedFields
  <2> QED BY <2>1, <2>2, <2>3, <2>4, <2>5, <2>6, <2>7 DEF LedgerStates
<1>2. row.kind = "boot" => ~s.open /\ ~s.held /\ s.active = NoRequest
  BY DEF Accepts
<1>3. row.kind # "boot" =>
        /\ s.open /\ row.epoch = s.epoch /\ row.owner = s.owner
        /\ row.kind # "hold" => ~s.held
        /\ row.kind \in {"close", "begin"} => s.active = NoRequest
        /\ row.kind = "begin" => row.request \notin s.seen
        /\ row.kind \notin {"close", "begin"} => row.request = s.active
        /\ row.kind \in {"policy", "intent", "finish"} => s.active # NoRequest
        /\ row.kind = "policy" => s.phase = "begin"
        /\ row.kind = "intent" => s.phase = "policy"
        /\ row.kind = "finish" => row.evidence # "contradictory"
  BY DEF Accepts, FinishValid
<1>4. /\ row.kind = "boot" => t.open /\ t.owner = row.owner
      /\ row.kind # "boot" => t.epoch = s.epoch
      /\ row.kind \notin {"boot", "close"} => t.owner = s.owner /\ t.open = s.open
      /\ t.sequence = s.sequence + 1
  BY AppliedFields
<1>6. /\ row.kind = "begin" => t.seen = s.seen \cup {row.request}
      /\ row.kind # "begin" => t.seen = s.seen
  BY AppliedFields
<1>7. /\ row.kind = "begin" => t.active = row.request
      /\ row.kind = "finish" => t.active = NoRequest
      /\ row.kind \notin {"begin", "finish"} => t.active = s.active
  BY AppliedFields
<1>8. /\ row.kind \in {"begin", "policy", "intent"} => t.phase = row.kind
      /\ row.kind = "finish" => t.phase = "none"
      /\ row.kind \in {"boot", "close", "hold"} => t.phase = s.phase
  BY AppliedFields
<1>9. /\ row.kind = "finish" => (t.held <=> s.held \/ row.hold)
      /\ row.kind = "hold" => t.held
      /\ row.kind \notin {"finish", "hold"} => t.held = s.held
  <2>1. t.held = IF row.kind = "hold" THEN TRUE
                 ELSE IF row.kind = "finish" THEN s.held \/ row.hold ELSE s.held
    BY AppliedFields
  <2> HIDE DEF t
  <2>2. CASE row.kind = "hold"
    BY <2>1, <2>2
  <2>3. CASE row.kind = "finish"
    BY <2>1, <2>3
  <2>4. CASE row.kind \notin {"finish", "hold"}
    BY <2>1, <2>4
  <2> QED BY <2>2, <2>3, <2>4
<1> HIDE DEF t
<1>5. row.kind \in Kinds
  BY DEF Rows
<1> QED BY <1>1, <1>2, <1>3, <1>4, <1>5, <1>6, <1>7, <1>8, <1>9 DEF Kinds, t

\* A row that is accepted and written keeps the state row in step with the rows.
LEMMA RowInv ==
  ASSUME log \in Seq(Rows), domain \in LedgerStates, answered \subseteq arrived, DomainInv,
         \A r \in Requests : RequestInv(r) /\ SentInv(r),
         NEW row, Proper(row), Accepts(domain, row),
         log' = Append(log, row), domain' = Apply(domain, row), UNCHANGED history
  PROVE  /\ log' \in Seq(Rows) /\ Len(log') = Len(log) + 1 /\ domain' \in LedgerStates
         /\ DomainInv' /\ \A r \in Requests : RequestInv(r)' /\ SentInv(r)'
<1> DEFINE k == row.kind
<1>1. /\ row \in Rows /\ k \in Kinds \ {"provision"} /\ row.request \in Requests \cup {NoRequest}
      /\ k = "begin" => row.request \in Requests
      /\ row.hold => k = "finish"
      /\ k = "finish" /\ row.request \in sent => row.request \in answered \/ row.hold
  BY DEF Proper, Rows
<1>2. /\ domain' \in LedgerStates /\ domain'.sequence = domain.sequence + 1
      /\ k = "boot" => domain'.open /\ ~domain.held /\ domain.active = NoRequest
      /\ k # "boot" => domain'.epoch = domain.epoch /\ domain.open /\ row.epoch = domain.epoch
      /\ k \notin {"boot", "close"} => domain'.open
      /\ k = "close" => domain.active = NoRequest
      /\ k = "begin" => /\ domain.active = NoRequest /\ row.request \notin domain.seen
                        /\ domain'.active = row.request /\ domain'.phase = "begin"
                        /\ domain'.seen = domain.seen \cup {row.request}
      /\ k # "begin" => domain'.seen = domain.seen
      /\ k = "policy" => domain.phase = "begin" /\ domain'.phase = "policy"
      /\ k = "intent" => domain.phase = "policy" /\ domain'.phase = "intent"
      /\ k \in {"policy", "intent", "finish"} =>
           row.request = domain.active /\ domain.active # NoRequest
      /\ k \in {"policy", "intent"} => domain'.active = domain.active
      /\ k = "finish" => /\ domain'.active = NoRequest /\ domain'.phase = "none"
                         /\ (domain'.held <=> domain.held \/ row.hold)
      /\ k = "hold" => domain'.held
      /\ k \notin {"finish", "hold"} => domain'.held = domain.held
      /\ k \in {"boot", "close", "hold"} =>
           domain'.active = domain.active /\ domain'.phase = domain.phase
      /\ k # "hold" => ~domain.held
  BY <1>1, Applied
<1>3. /\ log' \in Seq(Rows) /\ Len(log) \in Nat /\ Len(log') = Len(log) + 1
      /\ log'[Len(log')] = row
      /\ \A c, r : Recorded(c, r)' <=> Recorded(c, r) \/ (k = c /\ row.request = r)
      /\ (\E i \in DOMAIN log' : Holds(log'[i])) <=>
           (\E i \in DOMAIN log : Holds(log[i])) \/ Holds(row)
  BY <1>1, AppendedRows
<1>4. \A r : k # "boot" /\ IntentsNow(r) => IntentsNow(r)'
  BY <1>1, <1>2, AppendedRows DEF IntentsNow
<1>5. \A r : ~Recorded("intent", r) /\ k # "intent" => IntentsNow(r)'
  <2>1. \A r : ~Recorded("intent", r) /\ k # "intent" => ~Recorded("intent", r)'
    BY <1>3
  <2> QED BY <2>1 DEF Recorded, IntentsNow
<1> HIDE DEF k
<1>6. DomainInv'
  <2>1. domain'.sequence = Len(log')
    BY <1>2, <1>3 DEF DomainInv
  <2>2. domain'.held <=> \E i \in DOMAIN log' : Holds(log'[i])
    BY <1>1, <1>2, <1>3 DEF DomainInv, Holds, k
  <2>3. domain'.active = NoRequest <=> domain'.phase = "none"
    BY <1>1, <1>2, DomainAssumption DEF DomainInv, Kinds
  <2>4. domain'.active # NoRequest => domain'.open
    BY <1>1, <1>2 DEF DomainInv
  <2>5. domain'.phase = "intent" /\ ~domain'.held =>
          log'[Len(log')].kind = "intent" /\ log'[Len(log')].request = domain'.active
    BY <1>1, <1>2, <1>3, DomainAssumption DEF DomainInv, Kinds, k
  <2> QED BY <2>1, <2>2, <2>3, <2>4, <2>5 DEF DomainInv
<1>7. ASSUME NEW r \in Requests PROVE RequestInv(r)'
  <2>1. Recorded("begin", r)' <=> r \in domain'.seen
    BY <1>2, <1>3 DEF RequestInv
  <2>2. Recorded("intent", r)' => \/ domain'.active = r /\ domain'.phase = "intent"
                                  \/ Recorded("finish", r)'
    BY <1>1, <1>2, <1>3 DEF RequestInv, DomainInv, Kinds
  <2>3. Recorded("finish", r)' => r \in domain'.seen /\ domain'.active # r
    BY <1>1, <1>2, <1>3, DomainAssumption DEF RequestInv, DomainInv, Kinds
  <2>4. domain'.active = r => /\ r \in domain'.seen
                              /\ domain'.phase = "intent" => Recorded("intent", r)'
    BY <1>1, <1>2, <1>3, DomainAssumption DEF RequestInv, DomainInv, Kinds
  <2>5. domain'.active = r => IntentsNow(r)'
    <3>1. CASE k = "begin"
      BY <1>2, <1>5, <3>1 DEF RequestInv
    <3>2. CASE k # "begin"
      BY <1>1, <1>2, <1>4, <3>2, DomainAssumption DEF RequestInv, Kinds
    <3> QED BY <3>1, <3>2
  <2> QED BY <2>1, <2>2, <2>3, <2>4, <2>5 DEF RequestInv
<1>8. ASSUME NEW r \in Requests PROVE SentInv(r)'
  <2>1. r \in sent' => Recorded("intent", r)'
    BY <1>3 DEF history, SentInv
  <2>2. r \in sent' /\ Recorded("finish", r)' => r \in answered' \/ domain'.held
    BY <1>1, <1>2, <1>3 DEF history, SentInv, Kinds
  <2>3. r \in sent' \ arrived' => IntentsNow(r)'
    <3>1. CASE k = "boot"
      BY <1>2, <3>1, DomainAssumption DEF history, SentInv, RequestInv
    <3>2. CASE k # "boot"
      BY <1>4, <3>2 DEF history, SentInv
    <3> QED BY <3>1, <3>2
  <2> QED BY <2>1, <2>2, <2>3 DEF SentInv
<1> QED BY <1>2, <1>3, <1>6, <1>7, <1>8

\* What does not touch log and state row.
LEMMA SameDomain ==
  ASSUME UNCHANGED <<log, domain>>
  PROVE  /\ DomainInv' <=> DomainInv
         /\ \A r : RequestInv(r)' <=> RequestInv(r)
         /\ \A r : IntentsNow(r)' <=> IntentsNow(r)
         /\ \A k, r : Recorded(k, r)' <=> Recorded(k, r)
BY DEF DomainInv, RequestInv, IntentsNow, Recorded

\* A transaction that is accepted, now or later.
LEMMA TransactInv ==
  ASSUME IInv, NEW o \in Owners, NEW row, NEW outcome \in Outcomes,
         Transact(o, row, outcome), UNCHANGED history,
         outcome # "lost" => Quiet /\ Proper(row)
  PROVE  /\ log' \in Seq(Rows) /\ Len(log') \in 1..MaxEvents /\ domain' \in LedgerStates
         /\ commit' \in [Owners -> Rows \cup {NoRow}]
         /\ DomainInv' /\ \A r \in Requests : RequestInv(r)' /\ SentInv(r)'
         /\ \A q \in Owners : PendingInv(q)'
         /\ outcome # "ok" => log' = log /\ domain' = domain
         /\ outcome # "sent" => commit' = commit
<1>1. /\ log \in Seq(Rows) /\ Len(log) \in 1..MaxEvents /\ domain \in LedgerStates
      /\ commit \in [Owners -> Rows \cup {NoRow}] /\ answered \subseteq arrived
      /\ DomainInv /\ \A r \in Requests : RequestInv(r) /\ SentInv(r)
      /\ \A q \in Owners : PendingInv(q)
  BY DEF IInv, TypeOK
<1>2. /\ outcome # "lost" => Accepts(domain, row) /\ Len(log) < MaxEvents
      /\ log' = IF outcome = "ok" THEN Append(log, row) ELSE log
      /\ domain' = IF outcome = "ok" THEN Apply(domain, row) ELSE domain
      /\ commit' = [commit EXCEPT ![o] = IF outcome = "sent" THEN row ELSE @]
  BY DEF Transact
<1>3. outcome \in {"ok", "lost", "sent"} /\ MaxEvents \in Nat
  BY DomainAssumption DEF Outcomes
<1>4. CASE outcome = "ok"
  <2>1. /\ log' \in Seq(Rows) /\ Len(log') = Len(log) + 1 /\ domain' \in LedgerStates
        /\ DomainInv' /\ \A r \in Requests : RequestInv(r)' /\ SentInv(r)'
    BY <1>1, <1>2, <1>4, RowInv
  <2>2. commit' = commit /\ Quiet
    BY <1>1, <1>2, <1>4
  <2>3. \A q \in Owners : PendingInv(q)'
    BY <2>2 DEF Quiet, PendingInv
  <2> QED BY <1>1, <1>2, <1>3, <1>4, <2>1, <2>2, <2>3
<1>5. CASE outcome # "ok"
  <2>1. log' = log /\ domain' = domain
    BY <1>2, <1>5
  <2>2. DomainInv' /\ \A r \in Requests : RequestInv(r)' /\ SentInv(r)'
    BY <1>1, <2>1, SameDomain DEF SentInv, history
  <2>3. CASE outcome = "lost"
    <3>1. commit' = commit
      BY <1>1, <1>2, <2>3
    <3>2. \A q \in Owners : PendingInv(q)'
      BY <1>1, <2>1, <3>1 DEF PendingInv, Proper, history
    <3> QED BY <1>1, <1>5, <2>1, <2>2, <3>1, <3>2
  <2>4. CASE outcome = "sent"
    <3>1. Quiet /\ Proper(row) /\ row \in Rows
      BY <2>4 DEF Proper
    <3>2. /\ commit'[o] = row /\ \A q \in Owners \ {o} : commit'[q] = NoRow
          /\ commit' \in [Owners -> Rows \cup {NoRow}]
      BY <1>1, <1>2, <2>4, <3>1 DEF Quiet
    <3>3. Proper(commit[o])'
      BY <3>1, <3>2 DEF Proper, history
    <3>5. Accepts(domain', commit'[o]) /\ Len(log') < MaxEvents
      BY <1>2, <2>1, <2>4, <3>2
    <3>4. \A q \in Owners : PendingInv(q)'
      BY <3>2, <3>3, <3>5 DEF PendingInv
    <3> QED BY <1>1, <2>1, <2>2, <2>4, <3>2, <3>4
  <2> QED BY <1>3, <1>5, <2>3, <2>4
<1> QED BY <1>4, <1>5

\* A COMMIT on its way ends with its session.
LEMMA SessionEndsInv ==
  ASSUME IInv, NEW o \in Owners, NEW kept \in BOOLEAN, SessionEnds(o, kept), UNCHANGED history
  PROVE  /\ log' \in Seq(Rows) /\ Len(log') \in 1..MaxEvents /\ domain' \in LedgerStates
         /\ commit' \in [Owners -> Rows \cup {NoRow}]
         /\ DomainInv' /\ \A r \in Requests : RequestInv(r)' /\ SentInv(r)'
         /\ \A q \in Owners : PendingInv(q)'
         /\ ~Quiet \/ (log' = log /\ domain' = domain /\ Quiet')
<1>1. /\ log \in Seq(Rows) /\ Len(log) \in 1..MaxEvents /\ domain \in LedgerStates
      /\ commit \in [Owners -> Rows \cup {NoRow}] /\ answered \subseteq arrived
      /\ DomainInv /\ \A r \in Requests : RequestInv(r) /\ SentInv(r)
      /\ \A q \in Owners : PendingInv(q)
  BY DEF IInv, TypeOK
<1>2. /\ kept => commit[o] # NoRow
      /\ log' = IF kept THEN Append(log, commit[o]) ELSE log
      /\ domain' = IF kept THEN Apply(domain, commit[o]) ELSE domain
      /\ commit' = [commit EXCEPT ![o] = NoRow]
  BY DEF SessionEnds
<1>3. /\ commit' \in [Owners -> Rows \cup {NoRow}] /\ commit'[o] = NoRow
      /\ \A q \in Owners \ {o} : commit'[q] = commit[q]
  BY <1>1, <1>2
<1>4. CASE kept
  <2>1. /\ Proper(commit[o]) /\ Accepts(domain, commit[o]) /\ Len(log) < MaxEvents
        /\ \A q \in Owners \ {o} : commit[q] = NoRow
    BY <1>1, <1>2, <1>4 DEF PendingInv
  <2>2. /\ log' \in Seq(Rows) /\ Len(log') = Len(log) + 1 /\ domain' \in LedgerStates
        /\ DomainInv' /\ \A r \in Requests : RequestInv(r)' /\ SentInv(r)'
    BY <1>1, <1>2, <1>4, <2>1, RowInv
  <2>3. \A q \in Owners : PendingInv(q)'
    BY <1>3, <2>1 DEF PendingInv
  <2>4. ~Quiet /\ Len(log') \in 1..MaxEvents
    BY <1>1, <1>2, <1>4, <2>1, <2>2, DomainAssumption DEF Quiet
  <2> QED BY <1>3, <2>2, <2>3, <2>4
<1>5. CASE ~kept
  <2>1. log' = log /\ domain' = domain
    BY <1>2, <1>5
  <2>2. DomainInv' /\ \A r \in Requests : RequestInv(r)' /\ SentInv(r)'
    BY <1>1, <2>1, SameDomain DEF SentInv, history
  <2>3. \A q \in Owners : PendingInv(q)'
    BY <1>1, <1>3, <2>1 DEF PendingInv, Proper, history
  <2>4. Quiet => Quiet'
    BY <1>3 DEF Quiet
  <2> QED BY <1>1, <1>3, <2>1, <2>2, <2>3, <2>4
<1> QED BY <1>4, <1>5
-------------------------------------------------------------------------------
\* Changes of one object and one session.
LEMMA ObjectTypes ==
  ASSUME TypeOK, NEW o \in Owners
  PROVE  /\ \A j \in Journals : Becomes(o, j) =>
              /\ journal' \in [Owners -> Journals] /\ journal'[o] = j
              /\ \A p \in Owners \ {o} : journal'[p] = journal[p]
         /\ Released(o) => session' \in [Owners -> Sessions]
         /\ journal[o] \in Journals /\ Poisoned(o) \in Journals /\ Poisoned(o).poisoned
         /\ \A state \in {"closed", "gone"} :
              Finished(state) \in Journals /\ Finished(state).state = state
<1>1. journal \in [Owners -> Journals] /\ session \in [Owners -> Sessions]
  BY DEF TypeOK
<1>2. Poisoned(o) \in Journals /\ Poisoned(o).poisoned
  BY <1>1 DEF Journals, Poisoned
<1>3. LedgerState \in LedgerStates
  BY DEF LedgerState, LedgerStates, Kinds
<1>4. \A state \in {"closed", "gone"} :
        Finished(state) \in Journals /\ Finished(state).state = state
  BY <1>3 DEF Finished, Journals
<1> QED BY <1>1, <1>2, <1>4 DEF Becomes, Released, Sessions

\* What an object that may run a transaction is entitled to assume.
LEMMA Runner ==
  ASSUME IInv, NEW o \in Owners, CanRun(o)
  PROVE  /\ journal[o].known = domain /\ domain.open /\ domain.owner = o /\ ~domain.held
         /\ Quiet /\ \A p \in Owners \ {o} : ~InService(p)
         /\ \A r \in Requests : call[r].owner = o =>
              \A s \in Requests \ {r} : call[s].at \notin Active
<1>1. /\ InService(o) /\ journal[o].known = domain /\ ~domain.held
      /\ domain.open /\ domain.owner = o /\ o # NoOwner
  BY DomainAssumption DEF CanRun, Held, InService
<1>2. Quiet /\ \A p \in Owners \ {o} : ~InService(p)
  BY <1>1 DEF IInv, JournalInv
<1>3. ASSUME NEW r \in Requests, call[r].owner = o, NEW s \in Requests \ {r},
             call[s].at \in Active
      PROVE  FALSE
  BY <1>1, <1>3 DEF IInv, CallInv, OneCall
<1> QED BY <1>1, <1>2, <1>3

\* Only the object that has written may still be in service.
LEMMA WriterJournal ==
  ASSUME IInv, NEW o \in Owners, NEW row, NEW outcome \in Outcomes,
         Transact(o, row, outcome), outcome # "lost" => CanRun(o) /\ Proper(row),
         \A p \in Owners \ {o} : journal'[p] = journal[p],
         InService(o)' => /\ outcome = "ok" /\ journal'[o].known = domain'
                          /\ row.kind # "close"
  PROVE  \A p \in Owners : JournalInv(p)'
<1>1. commit \in [Owners -> Rows \cup {NoRow}] /\ domain \in LedgerStates
  BY DEF IInv, TypeOK
<1>2. outcome # "sent" => commit' = commit
  BY <1>1 DEF Transact
<1>3. outcome # "ok" => domain' = domain
  BY DEF Transact
<1>4. outcome \in {"ok", "lost", "sent"}
  BY DEF Outcomes
<1>5. ASSUME NEW p \in Owners \ {o} PROVE JournalInv(p)'
  <2>1. CASE outcome = "lost"
    BY <1>2, <1>3, <2>1 DEF IInv, JournalInv, InService, Quiet
  <2>2. CASE outcome # "lost"
    BY <2>2, Runner DEF JournalInv, InService
  <2> QED BY <2>1, <2>2
<1>6. JournalInv(o)'
  <2> SUFFICES ASSUME InService(o)'
               PROVE  /\ journal'[o].known = domain' /\ domain'.open /\ domain'.owner = o
                      /\ Quiet'
    BY DEF JournalInv
  <2>1. /\ CanRun(o) /\ row \in Rows /\ row.kind # "provision" /\ row.kind # "close"
        /\ row.kind = "begin" => row.request \in Requests
        /\ Accepts(domain, row) /\ domain' = Apply(domain, row) /\ commit' = commit
    BY <1>2 DEF Transact, Proper
  <2>2. /\ row.kind = "boot" => ~domain.open
        /\ row.kind # "boot" => domain'.open /\ domain'.owner = domain.owner
    BY <1>1, <2>1, Applied
  <2> QED BY <2>1, <2>2, Runner DEF Quiet
<1> QED BY <1>5, <1>6

\* Run() in short.
LEMMA RunInv ==
  ASSUME IInv, NEW o \in Owners, NEW row, NEW outcome \in Outcomes, Run(o, row, outcome),
         outcome # "lost" => Proper(row) /\ row.kind # "close"
  PROVE  /\ Transact(o, row, outcome)
         /\ outcome # "lost" => CanRun(o)
         /\ \A p \in Owners : JournalInv(p)'
         /\ lock' = lock /\ session' \in [Owners -> Sessions] /\ journal' \in [Owners -> Journals]
<1>1. /\ Transact(o, row, outcome) /\ lock' = lock
      /\ outcome # "lost" => CanRun(o)
  BY DEF Run
<1>2. CASE outcome = "ok"
  <2>1. /\ Becomes(o, [journal[o] EXCEPT !.known = domain']) /\ session' = session
        /\ CanRun(o) /\ Proper(row) /\ row.kind # "close"
    BY <1>2 DEF Run
  <2>2. domain \in LedgerStates /\ Accepts(domain, row) /\ domain' = Apply(domain, row)
    BY <1>1, <1>2 DEF Transact, IInv, TypeOK
  <2>3. domain' \in LedgerStates
    BY <2>1, <2>2, Applied DEF Proper
  <2>4. [journal[o] EXCEPT !.known = domain'] \in Journals
    BY <2>3, ObjectTypes DEF Journals, IInv
  <2>5. /\ journal' \in [Owners -> Journals]
        /\ journal'[o] = [journal[o] EXCEPT !.known = domain']
        /\ \A p \in Owners \ {o} : journal'[p] = journal[p]
    BY <2>1, <2>4, ObjectTypes DEF IInv
  <2>6. journal'[o].known = domain'
    BY <2>5, ObjectTypes DEF Journals, IInv
  <2>7. \A p \in Owners : JournalInv(p)'
    BY <1>1, <1>2, <2>1, <2>5, <2>6, WriterJournal
  <2> QED BY <1>1, <2>1, <2>5, <2>7 DEF IInv, TypeOK
<1>3. CASE outcome # "ok"
  <2>1. Becomes(o, Poisoned(o)) /\ Released(o)
    BY <1>3 DEF Run, Stopped
  <2>2. /\ journal' \in [Owners -> Journals] /\ journal'[o].poisoned
        /\ \A p \in Owners \ {o} : journal'[p] = journal[p]
        /\ session' \in [Owners -> Sessions]
    BY <2>1, ObjectTypes DEF IInv
  <2>3. \A p \in Owners : JournalInv(p)'
    BY <1>1, <1>3, <2>2, WriterJournal DEF InService
  <2> QED BY <1>1, <2>2, <2>3
<1> QED BY <1>2, <1>3
-------------------------------------------------------------------------------
\* A call that does not move, on a domain that does not change while it is active.
LEMMA CallFrame ==
  ASSUME NEW r \in Requests, CallInv(r), call'[r] = call[r], call[r] \in Calls,
         r \in sent' => r \in sent, r \in answered => r \in answered',
         call[r].at \in Active =>
           /\ domain' = domain /\ Quiet'
           /\ call[r].owner \in Owners /\ r \in delegated[call[r].owner] =>
                r \in delegated'[call[r].owner]
  PROVE  CallInv(r)'
<1> DEFINE c == call[r]
<1>1. /\ c' = c /\ (c.owner = NoOwner <=> c.at \in {"idle", "ended"})
      /\ c.at \notin {"idle", "ended"} => c.owner \in Owners
  BY DEF CallInv, Calls
<1>2. CASE c.at \notin Active
  BY <1>1, <1>2 DEF CallInv, Active
<1>3. CASE c.at \in Active
  BY <1>1, <1>3 DEF CallInv, Active
<1> QED BY <1>2, <1>3

\* One call goes on, or ends.
LEMMA OneCallKept ==
  ASSUME OneCall, NEW r \in Requests, \A s \in Requests \ {r} : call'[s] = call[s],
         call'[r].owner \in {call[r].owner, NoOwner}
  PROVE  OneCall'
BY DEF OneCall

\* A transaction on behalf of the call of r.
LEMMA WriteStep ==
  ASSUME IInv, NEW r \in Requests, NEW o \in Owners, NEW row, NEW outcome \in Outcomes,
         call[r].owner = o, Transact(o, row, outcome), UNCHANGED <<delegated, history>>,
         outcome # "lost" => CanRun(o) /\ Proper(row),
         lock' = lock, session' \in [Owners -> Sessions], journal' \in [Owners -> Journals],
         call' \in [Requests -> Calls], \A s \in Requests \ {r} : call'[s] = call[s],
         call'[r].owner \in {o, NoOwner}, CallInv(r)', \A p \in Owners : JournalInv(p)'
  PROVE  IInv'
<1>1. outcome # "lost" => /\ Quiet /\ Proper(row)
                          /\ \A s \in Requests \ {r} : call[s].at \notin Active
  BY Runner
<1>2. /\ log' \in Seq(Rows) /\ Len(log') \in 1..MaxEvents /\ domain' \in LedgerStates
      /\ commit' \in [Owners -> Rows \cup {NoRow}]
      /\ DomainInv' /\ \A s \in Requests : RequestInv(s)' /\ SentInv(s)'
      /\ \A q \in Owners : PendingInv(q)'
      /\ outcome # "ok" => log' = log /\ domain' = domain
      /\ outcome # "sent" => commit' = commit
  BY <1>1, TransactInv
<1>3. TypeOK'
  BY <1>2 DEF IInv, TypeOK, history
<1>4. OneCall'
  BY OneCallKept DEF IInv
<1>5. ASSUME NEW s \in Requests \ {r} PROVE CallInv(s)'
  <2>1. call[s].at \in Active => domain' = domain /\ commit' = commit /\ Quiet
    BY <1>1, <1>2 DEF IInv, CallInv, Outcomes
  <2>2. CallInv(s) /\ call[s] \in Calls /\ call'[s] = call[s]
    BY DEF IInv, TypeOK
  <2> QED BY <2>1, <2>2, CallFrame DEF history, Quiet
<1> QED BY <1>2, <1>3, <1>4, <1>5 DEF IInv

\* A step that writes nothing, of no call or of that of r.
LEMMA CallOnly ==
  ASSUME IInv, NEW R \in SUBSET Requests, UNCHANGED <<log, domain, commit>>, TypeOK', OneCall',
         \A s \in Requests \ R : call'[s] = call[s] /\ (s \in sent' <=> s \in sent),
         answered \subseteq answered', arrived \subseteq arrived',
         \A s \in Requests \ R : call[s].at \in Active /\ s \in delegated[call[s].owner] =>
                                   s \in delegated'[call[s].owner],
         \A p \in Owners : InService(p)' => journal'[p] = journal[p],
         \A r \in R : CallInv(r)' /\ SentInv(r)', sent' = sent \/ Quiet
  PROVE  IInv'
<1>1. /\ DomainInv' /\ \A r \in Requests : RequestInv(r)'
      /\ \A r \in Requests : IntentsNow(r)' <=> IntentsNow(r)
      /\ \A k, r : Recorded(k, r)' <=> Recorded(k, r)
  BY SameDomain DEF IInv
<1>2. ASSUME NEW q \in Owners PROVE PendingInv(q)'
  <2>1. CASE commit[q] = NoRow
    BY <2>1 DEF PendingInv
  <2>2. CASE commit[q] # NoRow
    <3>1. sent' = sent
      BY <2>2 DEF Quiet
    <3> QED BY <3>1 DEF IInv, PendingInv, Proper
  <2> QED BY <2>1, <2>2
<1>3. \A p \in Owners : JournalInv(p)'
  BY DEF IInv, JournalInv, InService, Quiet
<1>4. \A s \in Requests \ R : SentInv(s)'
  BY <1>1 DEF IInv, SentInv
<1>5. ASSUME NEW s \in Requests \ R PROVE CallInv(s)'
  <2>1. CallInv(s) /\ call[s] \in Calls /\ call'[s] = call[s]
    BY DEF IInv, TypeOK
  <2>2. call[s].at \in Active => Quiet'
    BY <2>1 DEF CallInv, Quiet
  <2> QED BY <2>1, <2>2, CallFrame
<1> QED BY <1>1, <1>2, <1>3, <1>4, <1>5 DEF IInv
-------------------------------------------------------------------------------
\* The records of calls and rows.
LEMMA CallRecords ==
  ASSUME TypeOK, NEW r \in Requests
  PROVE  /\ call[r] \in Calls
         /\ \A point \in Points :
              /\ Moved(r, point) \in Calls /\ Moved(r, point).at = point
              /\ Moved(r, point).owner = call[r].owner
              /\ Moved(r, point).evidence = call[r].evidence
              /\ Past(r, point) \in Calls /\ Past(r, point).at = point
              /\ Past(r, point).owner = call[r].owner /\ Past(r, point).evidence = "none"
              /\ Blank(point) \in Calls /\ Blank(point).at = point
              /\ Blank(point).owner = NoOwner
         /\ \A c \in Calls : Step(r, c) =>
              /\ call' \in [Requests -> Calls] /\ call'[r] = c
              /\ \A s \in Requests \ {r} : call'[s] = call[s]
<1>1. call \in [Requests -> Calls] /\ call[r] \in Calls
  BY DEF TypeOK
<1>2. \A point \in Points :
        /\ Moved(r, point) \in Calls /\ Moved(r, point).at = point
        /\ Moved(r, point).owner = call[r].owner /\ Moved(r, point).evidence = call[r].evidence
  BY <1>1 DEF Moved, Calls
<1>3. \A point \in Points :
        /\ Past(r, point) \in Calls /\ Past(r, point).at = point
        /\ Past(r, point).owner = call[r].owner /\ Past(r, point).evidence = "none"
  BY <1>1 DEF Past, Moved, Calls, Evidence
<1>4. \A point \in Points : Blank(point) \in Calls /\ Blank(point).at = point
                             /\ Blank(point).owner = NoOwner
  BY DEF Blank, Calls, Evidence
<1> QED BY <1>1, <1>2, <1>3, <1>4 DEF Step

LEMMA KnownEpoch ==
  ASSUME IInv, NEW o \in Owners
  PROVE  journal[o].known.epoch \in Nat
BY DEF IInv, TypeOK, Journals, LedgerStates

\* Points at which nothing is said of a call but its owner.
LEMMA NotActive ==
  ASSUME NEW r \in Requests, call'[r].at \in Points \ Active,
         call'[r].owner = NoOwner <=> call'[r].at \in {"idle", "ended"}
  PROVE  CallInv(r)'
BY DEF CallInv, Active

\* A row of the call of r.
LEMMA RunStep ==
  ASSUME IInv, NEW r \in Requests, NEW o \in Owners, NEW row, NEW outcome \in Outcomes,
         call[r].owner = o, Run(o, row, outcome), UNCHANGED <<delegated, history>>,
         outcome # "lost" => Proper(row) /\ row.kind # "close",
         NEW c \in Calls, c.owner = o, Step(r, After(r, outcome, c)),
         outcome = "ok" /\ call'[r] = c => CallInv(r)'
  PROVE  IInv'
<1>1. /\ Transact(o, row, outcome)
      /\ outcome # "lost" => CanRun(o)
      /\ \A p \in Owners : JournalInv(p)'
      /\ lock' = lock /\ session' \in [Owners -> Sessions] /\ journal' \in [Owners -> Journals]
  BY RunInv
<1>2. After(r, outcome, c) \in Calls /\ After(r, outcome, c).owner = o
  BY CallRecords DEF After, Points, IInv
<1>3. /\ call' \in [Requests -> Calls] /\ call'[r] = After(r, outcome, c)
      /\ \A s \in Requests \ {r} : call'[s] = call[s]
  BY <1>2, CallRecords DEF IInv
<1>4. CallInv(r)'
  <2>1. CASE outcome = "ok"
    BY <1>3, <2>1 DEF After
  <2>2. CASE outcome # "ok"
    <3>1. call'[r].at = "failing" /\ call'[r].owner = o /\ o # NoOwner
      BY <1>3, <2>2, CallRecords, DomainAssumption DEF After, Points, IInv
    <3> QED BY <3>1, NotActive DEF Points, Active
  <2> QED BY <2>1, <2>2
<1>5. call'[r].owner \in {o, NoOwner}
  BY <1>2, <1>3
<1> QED BY <1>1, <1>3, <1>4, <1>5, WriteStep

\* What the accepted rows of a call leave it with.
LEMMA OwnRow ==
  ASSUME IInv, NEW r \in Requests, NEW o \in Owners, NEW row, CanRun(o), Proper(row),
         Transact(o, row, "ok"), row.request = r, row.kind \in {"begin", "policy", "intent"}
  PROVE  /\ domain'.active = r /\ domain'.owner = o /\ ~domain'.held /\ Quiet'
         /\ domain'.phase = row.kind
         /\ row.kind = "begin" => r \notin sent
<1>1. /\ domain \in LedgerStates /\ row \in Rows /\ Accepts(domain, row)
      /\ domain' = Apply(domain, row) /\ commit' = commit
  BY DEF Transact, IInv, TypeOK, Proper
<1>2. Quiet' /\ domain.owner = o /\ ~domain.held
  BY <1>1, Runner DEF Quiet
<1>3. /\ domain'.owner = domain.owner /\ domain'.held = domain.held /\ domain'.phase = row.kind
      /\ domain'.active = r
      /\ row.kind = "begin" => domain.active = NoRequest /\ r \notin domain.seen
  BY <1>1, Applied
<1>4. row.kind = "begin" => r \notin sent
  BY <1>3, DomainAssumption DEF IInv, SentInv, RequestInv
<1> QED BY <1>2, <1>3, <1>4

\* The rows of the four handlers.
LEMMA BeginStep ==
  ASSUME IInv, NEW r \in Requests, NEW o \in Owners, NEW outcome \in Outcomes,
         Begin(r, o, outcome)
  PROVE  IInv'
<1> DEFINE row == Event("begin", o, r)
           c == Moved(r, "begun")
<1>1. /\ call[r].owner = o /\ Run(o, row, outcome) /\ Step(r, After(r, outcome, c))
      /\ UNCHANGED <<delegated, history>>
  BY DEF Begin, At
<1>2. row \in Rows /\ row.kind = "begin" /\ row.request = r /\ ~row.hold
  BY KnownEpoch DEF Event, Row, Rows, Kinds, Evidence
<1>3. Proper(row)
  BY <1>2 DEF Proper
<1>4. c \in Calls /\ c.owner = o /\ c.at = "begun"
  BY <1>1, CallRecords DEF IInv, Points
<1> HIDE DEF row, c
<1>5. outcome = "ok" /\ call'[r] = c => CallInv(r)'
  <2> SUFFICES ASSUME outcome = "ok", call'[r] = c PROVE CallInv(r)'
    OBVIOUS
  <2>1. CanRun(o) /\ Transact(o, row, "ok")
    BY <1>1, <1>2, <1>3, RunInv
  <2>2. domain'.active = r /\ domain'.owner = o /\ ~domain'.held /\ Quiet' /\ r \notin sent
    BY <1>2, <1>3, <2>1, OwnRow
  <2> QED BY <1>1, <1>4, <2>2, DomainAssumption DEF CallInv, Active, history
<1> QED BY <1>1, <1>2, <1>3, <1>4, <1>5, RunStep

LEMMA RecordPolicyStep ==
  ASSUME IInv, NEW r \in Requests, NEW o \in Owners, NEW outcome \in Outcomes,
         NEW bound \in BOOLEAN, RecordPolicy(r, o, bound, outcome)
  PROVE  IInv'
<1> DEFINE row == [Event("policy", o, r) EXCEPT !.bound = bound]
           c == IF bound THEN Moved(r, "permitted") ELSE Past(r, "settled")
<1>1. /\ call[r].owner = o /\ call[r].at = "begun" /\ Run(o, row, outcome)
      /\ Step(r, After(r, outcome, c)) /\ UNCHANGED <<delegated, history>>
  BY DEF RecordPolicy, At
<1>2. row \in Rows /\ row.kind = "policy" /\ row.request = r /\ ~row.hold
  BY KnownEpoch DEF Event, Row, Rows, Kinds, Evidence
<1>3. Proper(row)
  BY <1>2 DEF Proper
<1>4. c \in Calls /\ c.owner = o /\ c.at \in {"permitted", "settled"}
  BY <1>1, CallRecords DEF IInv, Points
<1> HIDE DEF row, c
<1>5. outcome = "ok" /\ call'[r] = c => CallInv(r)'
  <2> SUFFICES ASSUME outcome = "ok", call'[r] = c PROVE CallInv(r)'
    OBVIOUS
  <2>1. CanRun(o) /\ Transact(o, row, "ok")
    BY <1>1, <1>2, <1>3, RunInv
  <2>2. domain'.active = r /\ domain'.owner = o /\ ~domain'.held /\ Quiet'
    BY <1>2, <1>3, <2>1, OwnRow
  <2>3. r \notin sent'
    BY <1>1 DEF IInv, CallInv, history
  <2> QED BY <1>4, <2>2, <2>3, DomainAssumption DEF CallInv, Active
<1> QED BY <1>1, <1>2, <1>3, <1>4, <1>5, RunStep

LEMMA RecordIntentStep ==
  ASSUME IInv, NEW r \in Requests, NEW o \in Owners, NEW outcome \in Outcomes,
         RecordIntent(r, o, outcome)
  PROVE  IInv'
<1> DEFINE row == Event("intent", o, r)
           c == Moved(r, "intended")
<1>1. /\ call[r].owner = o /\ call[r].at = "permitted" /\ Run(o, row, outcome)
      /\ Step(r, After(r, outcome, c)) /\ UNCHANGED <<delegated, history>>
  BY DEF RecordIntent, At
<1>2. row \in Rows /\ row.kind = "intent" /\ row.request = r /\ ~row.hold
  BY KnownEpoch DEF Event, Row, Rows, Kinds, Evidence
<1>3. Proper(row)
  BY <1>2 DEF Proper
<1>4. c \in Calls /\ c.owner = o /\ c.at = "intended"
  BY <1>1, CallRecords DEF IInv, Points
<1> HIDE DEF row, c
<1>5. outcome = "ok" /\ call'[r] = c => CallInv(r)'
  <2> SUFFICES ASSUME outcome = "ok", call'[r] = c PROVE CallInv(r)'
    OBVIOUS
  <2>1. CanRun(o) /\ Transact(o, row, "ok")
    BY <1>1, <1>2, <1>3, RunInv
  <2>2. /\ domain'.active = r /\ domain'.owner = o /\ ~domain'.held /\ Quiet'
        /\ domain'.phase = "intent"
    BY <1>2, <1>3, <2>1, OwnRow
  <2>3. r \notin sent'
    BY <1>1 DEF IInv, CallInv, history
  <2> QED BY <1>4, <2>2, <2>3, DomainAssumption DEF CallInv, Active
<1> QED BY <1>1, <1>2, <1>3, <1>4, <1>5, RunStep

LEMMA RecordFinishStep ==
  ASSUME IInv, NEW r \in Requests, NEW o \in Owners, NEW outcome \in Outcomes,
         RecordFinish(r, o, outcome)
  PROVE  IInv'
<1> DEFINE hold == call[r].evidence = "unknown"
           row == [Event("finish", o, r) EXCEPT !.evidence = call[r].evidence, !.hold = hold]
           c == Past(r, "finished")
<1>1. /\ call[r].owner = o /\ call[r].at = "settled" /\ Run(o, row, outcome)
      /\ Step(r, After(r, outcome, c)) /\ UNCHANGED <<delegated, history>>
  BY DEF RecordFinish, At
<1>2. /\ call[r] \in Calls /\ call[r].evidence \in Evidence /\ hold \in BOOLEAN
      /\ CallInv(r)
  BY CallRecords DEF IInv, Calls
<1>3. /\ row \in Rows /\ row.kind = "finish" /\ row.request = r
      /\ row.evidence = call[r].evidence /\ row.hold = hold
  BY <1>2, KnownEpoch DEF Event, Row, Rows, Kinds
<1>4. c \in Calls /\ c.owner = o /\ c.at = "finished"
  BY <1>1, CallRecords DEF IInv, Points
<1> HIDE DEF row, c
<1>5. outcome # "lost" => Proper(row)
  <2>1. outcome # "lost" => Accepts(domain, row)
    BY <1>1 DEF Run, Transact
  <2>2. Accepts(domain, row) => row.evidence # "contradictory"
    BY <1>3 DEF Accepts, FinishValid
  <2>3. row.evidence # "contradictory" /\ r \in sent => r \in answered \/ hold
    BY <1>1, <1>2, <1>3 DEF CallInv, Evidence
  <2> QED BY <1>3, <2>1, <2>2, <2>3 DEF Proper
<1>6. outcome = "ok" /\ call'[r] = c => CallInv(r)'
  BY <1>4, NotActive, DomainAssumption DEF Points, Active
<1> QED BY <1>1, <1>3, <1>4, <1>5, <1>6, RunStep
-------------------------------------------------------------------------------
\* The types after a step that writes nothing.
LEMMA QuietTypes ==
  ASSUME TypeOK, UNCHANGED <<log, domain, commit>>,
         lock' \in Owners \cup {NoOwner}, session' \in [Owners -> Sessions],
         journal' \in [Owners -> Journals], call' \in [Requests -> Calls],
         delegated' \in [Owners -> SUBSET Requests],
         arrived' \subseteq sent', answered' \subseteq arrived'
  PROVE  TypeOK'
BY DEF TypeOK

\* A journal that stops.
LEMMA StoppedFacts ==
  ASSUME TypeOK, NEW o \in Owners, Stopped(o)
  PROVE  /\ session' \in [Owners -> Sessions] /\ journal' \in [Owners -> Journals]
         /\ \A p \in Owners : InService(p)' => journal'[p] = journal[p]
<1>1. Becomes(o, Poisoned(o)) /\ Released(o)
  BY DEF Stopped
<1> QED BY <1>1, ObjectTypes DEF InService

\* A step of the call of r that writes nothing.
LEMMA OwnStep ==
  ASSUME IInv, NEW r \in Requests, NEW c \in Calls, Step(r, c),
         c.owner \in {call[r].owner, NoOwner},
         UNCHANGED <<log, domain, lock, commit>>,
         session' \in [Owners -> Sessions], journal' \in [Owners -> Journals],
         \A p \in Owners : InService(p)' => journal'[p] = journal[p],
         delegated' \in [Owners -> SUBSET Requests],
         \A p \in Owners : delegated[p] \subseteq delegated'[p],
         arrived' = arrived, answered \subseteq answered', answered' \subseteq arrived,
         sent \subseteq sent', sent' \subseteq sent \cup {r}, sent' = sent \/ Quiet,
         call'[r] = c => CallInv(r)', SentInv(r)'
  PROVE  IInv'
<1>1. /\ call' \in [Requests -> Calls] /\ call'[r] = c
      /\ \A s \in Requests \ {r} : call'[s] = call[s]
  BY CallRecords DEF IInv
<1>2. TypeOK'
  BY <1>1, QuietTypes DEF IInv, TypeOK
<1>3. OneCall'
  BY <1>1, OneCallKept DEF IInv
<1>4. \A s \in Requests \ {r} : call[s].at \in Active => call[s].owner \in Owners
  BY DEF IInv, TypeOK, CallInv, Calls, Active
<1>5. CallInv(r)' /\ {r} \in SUBSET Requests
  BY <1>1
<1>6. \A s \in Requests \ {r} : call[s].at \in Active /\ s \in delegated[call[s].owner] =>
                                  s \in delegated'[call[s].owner]
  BY <1>4
<1> QED BY <1>1, <1>2, <1>3, <1>5, <1>6, CallOnly

\* A step of the call of r that changes nothing else.
LEMMA MoveStep ==
  ASSUME IInv, NEW r \in Requests, NEW c \in Calls, Step(r, c),
         c.owner \in {call[r].owner, NoOwner},
         UNCHANGED <<journalVars, delegated, history>>, call'[r] = c => CallInv(r)'
  PROVE  IInv'
<1>1. SentInv(r)' <=> SentInv(r)
  BY SameDomain DEF SentInv, journalVars, history
<1> QED BY <1>1, OwnStep DEF journalVars, history, IInv, TypeOK

\* A call whose journal stops.
LEMMA StopStep ==
  ASSUME IInv, NEW r \in Requests, NEW o \in Owners, NEW c \in Calls, Step(r, c),
         c.owner \in {call[r].owner, NoOwner}, c.at \in Points \ Active,
         c.owner = NoOwner <=> c.at \in {"idle", "ended"},
         Stopped(o), UNCHANGED <<log, domain, lock, commit, delegated, history>>
  PROVE  IInv'
<1>1. SentInv(r)' <=> SentInv(r)
  BY SameDomain DEF SentInv, history
<1>2. call'[r] = c => CallInv(r)'
  BY NotActive
<1>3. /\ session' \in [Owners -> Sessions] /\ journal' \in [Owners -> Journals]
      /\ \A p \in Owners : InService(p)' => journal'[p] = journal[p]
  BY StoppedFacts DEF IInv
<1> QED BY <1>1, <1>2, <1>3, OwnStep DEF history, IInv, TypeOK

\* A journal that is failed on behalf of the call of r, which is over for it.
LEMMA FailedStep ==
  ASSUME IInv, NEW r \in Requests, NEW o \in Owners, NEW outcome \in Outcomes,
         JournalFailed(o, outcome), call[r].owner = o, UNCHANGED <<delegated, history>>,
         NEW c \in Calls, Step(r, c), c.owner \in {o, NoOwner}, c.at \in Points \ Active,
         c.owner = NoOwner <=> c.at \in {"idle", "ended"}
  PROVE  IInv'
<1> DEFINE row == Event("hold", o, journal[o].known.active)
<1>1. /\ outcome # "lost" => CanRun(o)
      /\ Transact(o, row, outcome) /\ Released(o) /\ lock' = lock
      /\ Becomes(o, [Poisoned(o) EXCEPT !.known = IF outcome = "ok" THEN domain' ELSE @])
  BY DEF JournalFailed
<1>2. Proper(row)
  <2> DEFINE a == journal[o].known.active
  <2>1. a \in Requests \cup {NoRequest}
    BY DEF IInv, TypeOK, Journals, LedgerStates
  <2> HIDE DEF a
  <2>2. /\ Event("hold", o, a) \in Rows /\ Event("hold", o, a).kind = "hold"
        /\ Event("hold", o, a).hold = FALSE
    BY <2>1, KnownEpoch DEF Event, Row, Rows, Kinds, Evidence
  <2>3. row = Event("hold", o, a)
    BY DEF a
  <2> QED BY <2>2, <2>3 DEF Proper
<1> HIDE DEF row
<1>3. domain' \in LedgerStates
  <2>1. outcome # "lost" => Quiet /\ Proper(row)
    BY <1>1, <1>2, Runner
  <2> QED BY <1>1, <2>1, TransactInv
<1>4. /\ journal' \in [Owners -> Journals] /\ journal'[o].poisoned
      /\ \A p \in Owners \ {o} : journal'[p] = journal[p]
      /\ session' \in [Owners -> Sessions]
  <2> DEFINE j == [Poisoned(o) EXCEPT !.known = IF outcome = "ok" THEN domain' ELSE @]
  <2>1. j \in Journals /\ j.poisoned
    BY <1>3, ObjectTypes DEF IInv, Journals
  <2> QED BY <1>1, <2>1, ObjectTypes DEF IInv
<1>5. \A p \in Owners : JournalInv(p)'
  BY <1>1, <1>2, <1>4, WriterJournal DEF InService
<1>6. /\ call' \in [Requests -> Calls] /\ call'[r] = c
      /\ \A s \in Requests \ {r} : call'[s] = call[s]
  BY CallRecords DEF IInv
<1>7. CallInv(r)'
  BY <1>6, NotActive
<1> QED BY <1>1, <1>2, <1>4, <1>5, <1>6, <1>7, WriteStep

LEMMA VerifyRejectsStep ==
  ASSUME IInv, NEW r \in Requests, NEW o \in Owners, NEW outcome \in Outcomes,
         VerifyRejects(r, o, outcome)
  PROVE  IInv'
<1>1. /\ JournalFailed(o, outcome) /\ call[r].owner = o /\ Step(r, Past(r, "failing"))
      /\ UNCHANGED <<delegated, history>>
  BY DEF VerifyRejects, At
<1>2. /\ Past(r, "failing") \in Calls /\ Past(r, "failing").owner = o
      /\ Past(r, "failing").at = "failing"
  BY <1>1, CallRecords DEF IInv, Points
<1> QED BY <1>1, <1>2, FailedStep, DomainAssumption DEF Points, Active

LEMMA RecordHoldStep ==
  ASSUME IInv, NEW r \in Requests, NEW o \in Owners, NEW outcome \in Outcomes,
         RecordHold(r, o, outcome)
  PROVE  IInv'
<1>1. /\ JournalFailed(o, outcome) /\ call[r].owner = o /\ Step(r, Blank("ended"))
      /\ UNCHANGED <<delegated, history>>
  BY DEF RecordHold, At
<1>2. Blank("ended") \in Calls /\ Blank("ended").owner = NoOwner /\ Blank("ended").at = "ended"
  BY CallRecords DEF IInv, Points
<1> QED BY <1>1, <1>2, FailedStep DEF Points, Active

\* The journal stops, and the call with it.
LEMMA StopSteps ==
  ASSUME IInv, NEW r \in Requests, NEW o \in Owners, Uncredentialed(r, o) \/ VerifyStops(r, o)
  PROVE  IInv'
<1>1. /\ Stopped(o) /\ call[r].owner = o /\ Step(r, Past(r, "failing"))
      /\ UNCHANGED <<log, domain, lock, commit, delegated, history>>
  BY DEF Uncredentialed, VerifyStops, At
<1>2. /\ Past(r, "failing") \in Calls /\ Past(r, "failing").owner = o
      /\ Past(r, "failing").at = "failing"
  BY <1>1, CallRecords DEF IInv, Points
<1> QED BY <1>1, <1>2, StopStep, DomainAssumption DEF Points, Active

\* A call that is admitted is the only one of its gateway; one that is refused ends.
LEMMA AdmitStep ==
  ASSUME IInv, NEW r \in Requests, NEW o \in Owners, NEW admitted \in BOOLEAN,
         Admit(r, o, admitted)
  PROVE  IInv'
<1>1. /\ call[r].at = "idle" /\ Unlocked(o) /\ JournalAdmit(o, admitted)
      /\ Step(r, IF admitted THEN [Blank("admitted") EXCEPT !.owner = o] ELSE Blank("ended"))
      /\ UNCHANGED <<log, domain, lock, commit, delegated, history>>
  BY DEF Admit, JournalAdmit
<1>2. CASE ~admitted
  <2>1. Stopped(o) /\ Step(r, Blank("ended"))
    BY <1>1, <1>2 DEF JournalAdmit
  <2>2. Blank("ended") \in Calls /\ Blank("ended").owner = NoOwner /\ Blank("ended").at = "ended"
    BY CallRecords DEF IInv, Points
  <2> QED BY <1>1, <2>1, <2>2, StopStep DEF Points, Active
<1>3. CASE admitted
  <2> DEFINE c == [Blank("admitted") EXCEPT !.owner = o]
  <2>1. c \in Calls /\ c.at = "admitted" /\ c.owner = o
    BY DEF Blank, Calls, Points, Evidence
  <2>2. Step(r, c) /\ UNCHANGED <<journal, session>>
    BY <1>1, <1>3 DEF JournalAdmit
  <2> HIDE DEF c
  <2>3. /\ call' \in [Requests -> Calls] /\ call'[r] = c
        /\ \A s \in Requests \ {r} : call'[s] = call[s]
    BY <2>1, <2>2, CallRecords DEF IInv
  <2>4. TypeOK'
    BY <1>1, <2>2, <2>3, QuietTypes DEF IInv, TypeOK, history
  <2>5. OneCall'
    <3>1. \A s \in Requests \ {r} : call[s].owner # o
      BY <1>1, DomainAssumption DEF IInv, CallInv, Unlocked
    <3> QED BY <2>1, <2>3, <3>1 DEF IInv, OneCall
  <2>6. CallInv(r)'
    BY <2>1, <2>3, NotActive, DomainAssumption DEF Points, Active
  <2>7. SentInv(r)'
    BY <1>1, SameDomain DEF IInv, SentInv, history
  <2>8. /\ {r} \in SUBSET Requests /\ journal' = journal /\ delegated' = delegated
        /\ sent' = sent /\ answered' = answered /\ arrived' = arrived
    BY <1>1, <2>2 DEF history
  <2> QED BY <1>1, <2>3, <2>4, <2>5, <2>6, <2>7, <2>8, CallOnly
<1> QED BY <1>2, <1>3

\* The steps between the rows.
LEMMA ConsumeStep ==
  ASSUME IInv, NEW r \in Requests, NEW o \in Owners, NEW verified \in BOOLEAN,
         Consume(r, o, verified)
  PROVE  IInv'
<1> DEFINE c == IF verified THEN Moved(r, "executing") ELSE Past(r, "settled")
<1>1. /\ call[r].at = "intended" /\ call[r].owner = o /\ Step(r, c)
      /\ UNCHANGED <<journalVars, delegated, history>>
  BY DEF Consume, At
<1>2. c \in Calls /\ c.owner = o /\ c.at \in {"executing", "settled"}
  BY <1>1, CallRecords DEF IInv, Points
<1> HIDE DEF c
<1>3. CallInv(r)
  BY DEF IInv
<1>4. call'[r] = c => CallInv(r)'
  BY <1>1, <1>2, <1>3 DEF CallInv, Active, history, journalVars, Quiet
<1> QED BY <1>1, <1>2, <1>4, MoveStep

LEMMA VerifyStep ==
  ASSUME IInv, NEW r \in Requests, NEW o \in Owners, Verify(r, o)
  PROVE  IInv'
<1> DEFINE c == Moved(r, "delegated")
<1>1. /\ call[r].at = "executing" /\ call[r].owner = o /\ Step(r, c) /\ r \notin delegated[o]
      /\ delegated' = [delegated EXCEPT ![o] = @ \cup {r}]
      /\ UNCHANGED <<log, domain, lock, session, commit, journal, history>>
  BY DEF Verify, At, Intended, journalVars
<1>2. c \in Calls /\ c.owner = o /\ c.at = "delegated"
  BY <1>1, CallRecords DEF IInv, Points
<1> HIDE DEF c
<1>3. CallInv(r) /\ TypeOK
  BY DEF IInv
<1>4. /\ delegated' \in [Owners -> SUBSET Requests]
      /\ \A p \in Owners : delegated[p] \subseteq delegated'[p]
      /\ r \in delegated'[o]
  BY <1>1, <1>3 DEF TypeOK
<1>5. call'[r] = c => CallInv(r)'
  BY <1>1, <1>2, <1>3, <1>4 DEF CallInv, Active, history, Quiet
<1>6. SentInv(r)'
  BY <1>1, SameDomain DEF IInv, SentInv, history
<1> QED BY <1>1, <1>2, <1>3, <1>4, <1>5, <1>6, OwnStep DEF history, TypeOK

LEMMA SendStep ==
  ASSUME IInv, NEW r \in Requests, NEW o \in Owners, Send(r, o)
  PROVE  IInv'
<1> DEFINE c == Moved(r, "sent")
<1>1. /\ call[r].at = "delegated" /\ call[r].owner = o /\ Step(r, c) /\ sent' = sent \cup {r}
      /\ UNCHANGED <<log, domain, lock, session, commit, journal, delegated, arrived, answered>>
  BY DEF Send, At, journalVars
<1>2. c \in Calls /\ c.owner = o /\ c.at = "sent"
  BY <1>1, CallRecords DEF IInv, Points
<1> HIDE DEF c
<1>3. CallInv(r) /\ TypeOK /\ RequestInv(r)
  BY DEF IInv
<1>4. /\ domain.active = r /\ domain.phase = "intent" /\ Quiet /\ Recorded("intent", r)
      /\ ~Recorded("finish", r) /\ IntentsNow(r)
  BY <1>1, <1>3 DEF CallInv, Active, RequestInv
<1>5. call'[r] = c => CallInv(r)'
  <2>1. r \in delegated[o]
    BY <1>1, <1>3 DEF CallInv
  <2> QED BY <1>1, <1>2, <1>3, <2>1 DEF CallInv, Active, Quiet
<1>6. SentInv(r)'
  BY <1>1, <1>4, SameDomain DEF SentInv
<1> QED BY <1>1, <1>2, <1>3, <1>4, <1>5, <1>6, OwnStep DEF TypeOK

LEMMA AdapterReturnsStep ==
  ASSUME IInv, NEW r \in Requests, NEW o \in Owners, NEW evidence \in Evidence \ {"none"},
         AdapterReturns(r, o, evidence)
  PROVE  IInv'
<1> DEFINE c == [Past(r, "settled") EXCEPT !.evidence = evidence]
<1>1. /\ call[r].owner = o /\ call[r].at \in {"executing", "delegated", "sent"}
      /\ evidence # "unknown" => call[r].at = "sent" /\ r \in arrived
      /\ Step(r, c)
      /\ answered' = IF evidence = "confirmed" THEN answered \cup {r} ELSE answered
      /\ UNCHANGED <<log, domain, lock, session, commit, journal, delegated, sent, arrived>>
  BY DEF AdapterReturns, journalVars
<1>2. c \in Calls /\ c.owner = o /\ c.at = "settled" /\ c.evidence = evidence
  <2>1. Past(r, "settled") \in Calls /\ Past(r, "settled").at = "settled"
        /\ Past(r, "settled").owner = o
    BY <1>1, CallRecords DEF IInv, Points
  <2> QED BY <2>1 DEF Calls
<1> HIDE DEF c
<1>3. CallInv(r) /\ TypeOK
  BY DEF IInv
<1>4. answered \subseteq answered' /\ answered' \subseteq arrived
  BY <1>1, <1>3 DEF TypeOK
<1>5. call'[r] = c => CallInv(r)'
  BY <1>1, <1>2, <1>3, DomainAssumption DEF CallInv, Active, Quiet
<1>6. SentInv(r)'
  <2>1. SentInv(r)
    BY DEF IInv
  <2> QED BY <1>1, <1>4, <2>1, SameDomain DEF SentInv
<1> QED BY <1>1, <1>2, <1>3, <1>4, <1>5, <1>6, OwnStep DEF TypeOK

LEMMA RetryStep ==
  ASSUME IInv, NEW r \in Requests, NEW o \in Owners, Retry(r, o)
  PROVE  IInv'
<1> DEFINE c == Moved(r, "executing")
<1>1. /\ call[r].at \in {"delegated", "sent"} /\ call[r].owner = o /\ Step(r, c)
      /\ UNCHANGED <<journalVars, delegated, history>>
  BY DEF Retry
<1>2. c \in Calls /\ c.owner = o /\ c.at = "executing"
  BY <1>1, CallRecords DEF IInv, Points
<1> HIDE DEF c
<1>3. CallInv(r)
  BY DEF IInv
<1>4. call'[r] = c => CallInv(r)'
  BY <1>1, <1>2, <1>3 DEF CallInv, Active, history, journalVars, Quiet
<1> QED BY <1>1, <1>2, <1>4, MoveStep

\* A call ends, or fails.
LEMMA EndSteps ==
  ASSUME IInv, NEW r \in Requests, NEW o \in Owners, Complete(r, o) \/ Fault(r, o)
  PROVE  IInv'
<1>1. PICK c \in {Blank("ended"), Past(r, "failing")} :
        Step(r, c) /\ UNCHANGED <<journalVars, delegated, history>> /\ call[r].owner = o
  BY DEF Complete, Fault, At
<1>2. /\ c \in Calls /\ c.owner \in {call[r].owner, NoOwner} /\ c.at \in {"ended", "failing"}
      /\ c.owner = NoOwner <=> c.at = "ended"
  BY <1>1, CallRecords, DomainAssumption DEF IInv, Points
<1>3. call'[r] = c => CallInv(r)'
  BY <1>2, NotActive DEF Points, Active
<1> QED BY <1>1, <1>2, <1>3, MoveStep

\* A request arrives, whatever its call is doing.
LEMMA ArriveStep ==
  ASSUME IInv, NEW r \in Requests, Arrive(r)
  PROVE  IInv'
<1>1. /\ r \in sent \ arrived /\ arrived' = arrived \cup {r}
      /\ UNCHANGED <<log, domain, lock, session, commit, journal, call, delegated, sent, answered>>
  BY DEF Arrive, journalVars
<1>2. TypeOK' /\ OneCall'
  BY <1>1, QuietTypes DEF IInv, TypeOK, OneCall
<1>3. CallInv(r)'
  BY <1>1 DEF IInv, CallInv, Quiet
<1>4. SentInv(r)'
  BY <1>1, SameDomain DEF IInv, SentInv
<1>5. {r} \in SUBSET Requests
  OBVIOUS
<1> QED BY <1>1, <1>2, <1>3, <1>4, <1>5, CallOnly

LEMMA ExpireStep ==
  ASSUME IInv, NEW r \in Requests, Expire(r)
  PROVE  IInv'
<1> DEFINE c == [call[r] EXCEPT !.valid = FALSE]
<1>1. Step(r, c) /\ UNCHANGED <<journalVars, delegated, history>>
  BY DEF Expire
<1>2. /\ c \in Calls /\ c.owner = call[r].owner /\ c.at = call[r].at
      /\ c.evidence = call[r].evidence
  <2>1. call[r] \in Calls
    BY CallRecords DEF IInv
  <2> QED BY <2>1 DEF Calls
<1> HIDE DEF c
<1>3. CallInv(r)
  BY DEF IInv
<1>4. call'[r] = c => CallInv(r)'
  BY <1>1, <1>2, <1>3 DEF CallInv, Active, history, journalVars, Quiet
<1> QED BY <1>1, <1>2, <1>4, MoveStep

\* Sessions end and locks are lost: a COMMIT that arrives finds nobody in service.
LEMMA DatabaseStep ==
  ASSUME IInv, NEW o \in Owners, Database(o)
  PROVE  IInv'
<1>1. UNCHANGED <<call, delegated, history>>
  BY DEF Database
<1>2. CASE LockLost(o)
  <2>1. lock' = NoOwner /\ UNCHANGED <<log, domain, session, commit, journal>>
    BY <1>2 DEF LockLost
  <2>2. TypeOK' /\ OneCall'
    BY <1>1, <2>1, QuietTypes DEF IInv, TypeOK, OneCall, history
  <2>3. {} \in SUBSET Requests
    OBVIOUS
  <2> QED BY <1>1, <2>1, <2>2, <2>3, CallOnly DEF history
<1>3. ASSUME NEW kept \in BOOLEAN, SessionEnds(o, kept) PROVE IInv'
  <2>1. /\ log' \in Seq(Rows) /\ Len(log') \in 1..MaxEvents /\ domain' \in LedgerStates
        /\ commit' \in [Owners -> Rows \cup {NoRow}]
        /\ DomainInv' /\ \A r \in Requests : RequestInv(r)' /\ SentInv(r)'
        /\ \A q \in Owners : PendingInv(q)'
        /\ Quiet => domain' = domain /\ Quiet'
    BY <1>1, <1>3, SessionEndsInv
  <2>2. /\ session' = [session EXCEPT ![o] = "gone"] /\ journal' = journal
        /\ lock' = IF lock = o THEN NoOwner ELSE lock
    BY <1>3 DEF SessionEnds
  <2>3. TypeOK' /\ OneCall'
    BY <1>1, <2>1, <2>2 DEF IInv, TypeOK, OneCall, history, Sessions
  <2>4. \A p \in Owners : JournalInv(p)'
    BY <2>1, <2>2 DEF IInv, JournalInv, InService
  <2>5. ASSUME NEW r \in Requests PROVE CallInv(r)'
    <3>1. CallInv(r) /\ call[r] \in Calls /\ call'[r] = call[r]
      BY <1>1 DEF IInv, TypeOK
    <3>2. call[r].at \in Active => domain' = domain /\ Quiet'
      BY <2>1, <3>1 DEF CallInv
    <3> QED BY <1>1, <3>1, <3>2, CallFrame DEF history
  <2> QED BY <2>1, <2>3, <2>4, <2>5 DEF IInv
<1> QED BY <1>2, <1>3 DEF Database

\* A process dies with its calls.
LEMMA CrashStep ==
  ASSUME IInv, NEW o \in Owners, Crash(o)
  PROVE  IInv'
<1> DEFINE R == {r \in Requests : call[r].owner = o}
<1>1. /\ Becomes(o, Finished("gone")) /\ Released(o) /\ UNCHANGED <<log, domain, lock, commit>>
      /\ call' = [r \in Requests |-> IF call[r].owner = o THEN Blank("ended") ELSE call[r]]
      /\ delegated' = [delegated EXCEPT ![o] = {}]
      /\ UNCHANGED history
  BY DEF Crash, JournalCrash
<1>2. /\ journal' \in [Owners -> Journals] /\ journal'[o].state = "gone"
      /\ \A p \in Owners \ {o} : journal'[p] = journal[p]
      /\ session' \in [Owners -> Sessions]
  BY <1>1, ObjectTypes DEF IInv
<1>3. Blank("ended") \in Calls /\ Blank("ended").owner = NoOwner /\ Blank("ended").at = "ended"
  BY DEF Blank, Calls, Evidence, Points
<1>4. /\ call \in [Requests -> Calls] /\ delegated \in [Owners -> SUBSET Requests]
      /\ arrived \subseteq sent /\ answered \subseteq arrived /\ TypeOK /\ OneCall
  BY DEF IInv, TypeOK
<1>5. /\ call' \in [Requests -> Calls] /\ delegated' \in [Owners -> SUBSET Requests]
      /\ \A r \in R : call'[r] = Blank("ended")
      /\ \A r \in Requests \ R : call'[r] = call[r]
      /\ \A p \in Owners \ {o} : delegated'[p] = delegated[p]
  BY <1>1, <1>3, <1>4
<1>6. TypeOK'
  BY <1>1, <1>2, <1>4, <1>5, QuietTypes DEF history, TypeOK
<1>7. OneCall'
  BY <1>3, <1>4, <1>5 DEF OneCall
<1>8. ASSUME NEW r \in R PROVE CallInv(r)' /\ SentInv(r)'
  <2>1. CallInv(r)'
    BY <1>3, <1>5, NotActive DEF Points, Active
  <2> QED BY <1>1, <2>1, SameDomain DEF IInv, SentInv, history
<1>9. ASSUME NEW s \in Requests \ R, call[s].at \in Active, s \in delegated[call[s].owner]
      PROVE  s \in delegated'[call[s].owner]
  <2>1. call[s].owner \in Owners \ {o}
    BY <1>4, <1>9 DEF IInv, CallInv, Calls, Active
  <2> QED BY <1>5, <1>9, <2>1
<1>10. \A p \in Owners : InService(p)' => journal'[p] = journal[p]
  BY <1>2 DEF InService
<1>11. R \in SUBSET Requests
  OBVIOUS
<1> HIDE DEF R
<1> QED BY <1>1, <1>5, <1>6, <1>7, <1>8, <1>9, <1>10, <1>11, CallOnly DEF history

LEMMA PinFailsStep ==
  ASSUME IInv, NEW o \in Owners, PinFails(o)
  PROVE  IInv'
<1>1. Stopped(o) /\ UNCHANGED <<log, domain, lock, commit, call, delegated, history>>
  BY DEF PinFails
<1>2. /\ session' \in [Owners -> Sessions] /\ journal' \in [Owners -> Journals]
      /\ \A p \in Owners : InService(p)' => journal'[p] = journal[p]
  BY <1>1, StoppedFacts DEF IInv
<1>3. TypeOK' /\ OneCall'
  BY <1>1, <1>2, QuietTypes DEF IInv, TypeOK, OneCall, history
<1>4. {} \in SUBSET Requests
  OBVIOUS
<1> QED BY <1>1, <1>2, <1>3, <1>4, CallOnly DEF history

\* A journal writes a row on behalf of no call, and none is active.
LEMMA ObjectStep ==
  ASSUME IInv, NEW o \in Owners, NEW row, NEW outcome \in Outcomes, Transact(o, row, outcome),
         outcome # "lost" => /\ Quiet /\ Proper(row)
                             /\ \A r \in Requests : call[r].at \notin Active,
         lock' \in Owners \cup {NoOwner}, session' \in [Owners -> Sessions],
         journal' \in [Owners -> Journals], \A p \in Owners : JournalInv(p)',
         UNCHANGED <<call, delegated, history>>
  PROVE  IInv'
<1>1. /\ log' \in Seq(Rows) /\ Len(log') \in 1..MaxEvents /\ domain' \in LedgerStates
      /\ commit' \in [Owners -> Rows \cup {NoRow}]
      /\ DomainInv' /\ \A r \in Requests : RequestInv(r)' /\ SentInv(r)'
      /\ \A q \in Owners : PendingInv(q)'
      /\ outcome # "ok" => log' = log /\ domain' = domain
      /\ outcome # "sent" => commit' = commit
  BY TransactInv
<1>2. TypeOK' /\ OneCall'
  BY <1>1 DEF IInv, TypeOK, OneCall, history
<1>3. ASSUME NEW r \in Requests PROVE CallInv(r)'
  <2>1. CallInv(r) /\ call[r] \in Calls /\ call'[r] = call[r]
    BY DEF IInv, TypeOK
  <2>2. call[r].at \in Active => domain' = domain /\ Quiet'
    BY <1>1, <2>1 DEF CallInv, Outcomes, Quiet
  <2> QED BY <2>1, <2>2, CallFrame DEF history
<1> QED BY <1>1, <1>2, <1>3 DEF IInv

\* A journal boots when none is in service.
LEMMA StartStep ==
  ASSUME IInv, NEW o \in Owners, NEW outcome \in Outcomes, Start(o, outcome)
  PROVE  IInv'
<1> DEFINE row == Row("boot", o, domain.epoch + 1, NoRequest)
           j == IF outcome = "ok"
                THEN [state |-> "open", poisoned |-> FALSE, known |-> domain']
                ELSE Finished("gone")
<1>1. /\ Quiet /\ ~domain.open /\ ~domain.held /\ domain.active = NoRequest
      /\ Transact(o, row, outcome) /\ lock' = o /\ Becomes(o, j)
      /\ session' = [session EXCEPT ![o] = IF outcome = "ok" THEN "live" ELSE "orphan"]
      /\ UNCHANGED <<call, delegated, history>>
  BY DEF Start, Boot, Quiet
<1>2. /\ row \in Rows /\ Proper(row) /\ row.kind = "boot" /\ row.owner = o
  BY DEF IInv, TypeOK, LedgerStates, Row, Rows, Proper, Kinds, Evidence
<1>3. \A r \in Requests : call[r].at \notin Active
  BY <1>1, DomainAssumption DEF IInv, CallInv
<1>4. /\ domain' \in LedgerStates
      /\ outcome # "sent" => commit' = commit
      /\ outcome # "ok" => domain' = domain
  BY <1>1, <1>2, TransactInv
<1>5. outcome = "ok" => domain'.open /\ domain'.owner = o
  <2>1. domain \in LedgerStates
    BY DEF IInv, TypeOK
  <2>2. outcome = "ok" => Accepts(domain, row) /\ domain' = Apply(domain, row)
    BY <1>1 DEF Transact
  <2> QED BY <1>2, <2>1, <2>2, Applied
<1>6. /\ j \in Journals
      /\ outcome = "ok" => j.known = domain'
      /\ outcome # "ok" => j.state = "gone"
  <2>1. CASE outcome = "ok"
    <3>1. j = [state |-> "open", poisoned |-> FALSE, known |-> domain']
      BY <2>1
    <3> QED BY <1>4, <2>1, <3>1 DEF Journals
  <2>2. CASE outcome # "ok"
    BY <2>2, ObjectTypes DEF IInv
  <2> QED BY <2>1, <2>2
<1>7. /\ journal' \in [Owners -> Journals] /\ journal'[o] = j
      /\ \A p \in Owners \ {o} : journal'[p] = journal[p]
  BY <1>1, <1>6, ObjectTypes DEF IInv
<1> HIDE DEF j
<1>8. session' \in [Owners -> Sessions] /\ lock' \in Owners \cup {NoOwner}
  BY <1>1 DEF IInv, TypeOK, Sessions
<1>9. \A p \in Owners : JournalInv(p)'
  <2>1. \A p \in Owners \ {o} : ~InService(p)'
    BY <1>1, <1>7 DEF IInv, JournalInv, InService
  <2>2. CASE outcome = "ok"
    <3>1. Quiet'
      BY <1>1, <1>4, <2>2 DEF Quiet
    <3> QED BY <1>5, <1>6, <1>7, <2>1, <2>2, <3>1 DEF JournalInv
  <2>3. CASE outcome # "ok"
    BY <1>6, <1>7, <2>1, <2>3 DEF JournalInv, InService
  <2> QED BY <2>2, <2>3
<1> HIDE DEF row
<1> QED BY <1>1, <1>2, <1>3, <1>7, <1>8, <1>9, ObjectStep

LEMMA ShutdownStep ==
  ASSUME IInv, NEW o \in Owners, NEW outcome \in Outcomes, Shutdown(o, outcome)
  PROVE  IInv'
<1> DEFINE row == Event("close", o, NoRequest)
<1>1. /\ outcome # "lost" => CanRun(o) /\ journal[o].known.active = NoRequest
      /\ Transact(o, row, outcome) /\ Becomes(o, Finished("closed")) /\ Released(o)
      /\ lock' = lock /\ UNCHANGED <<call, delegated, history>>
  BY DEF Shutdown, JournalClose
<1>2. Proper(row)
  <2>1. row \in Rows /\ row.kind = "close" /\ row.hold = FALSE
    BY KnownEpoch DEF Event, Row, Rows, Kinds, Evidence
  <2> QED BY <2>1 DEF Proper
<1> HIDE DEF row
<1>3. /\ journal' \in [Owners -> Journals] /\ journal'[o].state = "closed"
      /\ \A p \in Owners \ {o} : journal'[p] = journal[p]
      /\ session' \in [Owners -> Sessions]
  BY <1>1, ObjectTypes DEF IInv
<1>4. \A p \in Owners : JournalInv(p)'
  BY <1>1, <1>2, <1>3, WriterJournal DEF InService
<1>5. outcome # "lost" => Quiet /\ \A r \in Requests : call[r].at \notin Active
  <2>1. CanRun(o) => journal[o].known = domain /\ Quiet
    BY Runner
  <2> QED BY <1>1, <2>1, DomainAssumption DEF IInv, CallInv
<1>6. lock' \in Owners \cup {NoOwner}
  BY <1>1 DEF IInv, TypeOK
<1> QED BY <1>1, <1>2, <1>3, <1>4, <1>5, <1>6, ObjectStep
-------------------------------------------------------------------------------
LEMMA InitIInv == Init => IInv
<1> SUFFICES ASSUME Init PROVE IInv
  OBVIOUS
<1> DEFINE row == Row("provision", NoOwner, 0, NoRequest)
<1>1. /\ log = <<row>> /\ domain = [LedgerState EXCEPT !.sequence = 1] /\ lock = NoOwner
      /\ session = [o \in Owners |-> "none"] /\ commit = [o \in Owners |-> NoRow]
      /\ journal = [o \in Owners |->
                      [state |-> "new", poisoned |-> FALSE, known |-> LedgerState]]
      /\ call = [r \in Requests |-> Blank("idle")]
      /\ delegated = [o \in Owners |-> {}] /\ sent = {} /\ arrived = {} /\ answered = {}
  BY DEF Init, JournalInit
<1>2. row \in Rows /\ row.kind = "provision" /\ row.hold = FALSE
  BY DEF Row, Rows, Kinds, Evidence
<1> HIDE DEF row
<1>3. /\ log \in Seq(Rows) /\ Len(log) = 1 /\ DOMAIN log = {1} /\ log[1] = row
  BY <1>1, <1>2
<1>4. LedgerState \in LedgerStates /\ domain \in LedgerStates
  BY <1>1 DEF LedgerState, LedgerStates, Kinds
<1>5. /\ domain.sequence = 1 /\ ~domain.held /\ ~domain.open /\ domain.active = NoRequest
      /\ domain.phase = "none" /\ domain.seen = {}
  BY <1>1 DEF LedgerState
<1>6. Blank("idle") \in Calls /\ Blank("idle").at = "idle" /\ Blank("idle").owner = NoOwner
  BY DEF Blank, Calls, Points, Evidence
<1>7. TypeOK
  <2>1. Len(log) \in 1..MaxEvents
    BY <1>3, DomainAssumption
  <2>2. journal \in [Owners -> Journals]
    BY <1>1, <1>4 DEF Journals
  <2> QED BY <1>1, <1>3, <1>4, <1>6, <2>1, <2>2 DEF TypeOK, Sessions
<1>8. \A k, r : Recorded(k, r) => k = "provision"
  BY <1>2, <1>3 DEF Recorded
<1>9. DomainInv
  BY <1>2, <1>3, <1>5 DEF DomainInv, Holds
<1>10. ASSUME NEW r \in Requests PROVE RequestInv(r) /\ SentInv(r) /\ CallInv(r)
  <2>1. RequestInv(r)
    BY <1>5, <1>8, DomainAssumption DEF RequestInv
  <2>2. SentInv(r)
    BY <1>1 DEF SentInv
  <2>3. call[r].at = "idle" /\ call[r].owner = NoOwner
    BY <1>1, <1>6
  <2> QED BY <2>1, <2>2, <2>3 DEF CallInv, Active
<1>11. ASSUME NEW o \in Owners PROVE PendingInv(o) /\ JournalInv(o)
  BY <1>1 DEF PendingInv, JournalInv, InService
<1>12. OneCall
  BY <1>1, <1>6 DEF OneCall
<1> QED BY <1>7, <1>9, <1>10, <1>11, <1>12 DEF IInv

LEMMA NextIInv == IInv /\ [Next]_vars => IInv'
<1> SUFFICES ASSUME IInv, [Next]_vars PROVE IInv'
  OBVIOUS
<1>1. CASE UNCHANGED vars
  <2>1. /\ UNCHANGED <<log, domain, lock, session, commit, journal, call, delegated, sent,
                       arrived, answered>>
    BY <1>1 DEF vars, journalVars, history
  <2>2. TypeOK' /\ OneCall'
    BY <2>1 DEF IInv, TypeOK, OneCall
  <2>3. {} \in SUBSET Requests
    OBVIOUS
  <2> QED BY <2>1, <2>2, <2>3, CallOnly
<1>2. ASSUME NEW r \in Requests, NEW o \in Owners, CallStep(r, o) PROVE IInv'
  <2>1. ASSUME NEW outcome \in Outcomes,
               \/ Begin(r, o, outcome) \/ RecordIntent(r, o, outcome)
               \/ \E bound \in BOOLEAN : RecordPolicy(r, o, bound, outcome)
               \/ VerifyRejects(r, o, outcome) \/ RecordFinish(r, o, outcome)
               \/ RecordHold(r, o, outcome)
        PROVE  IInv'
    BY <2>1, BeginStep, RecordPolicyStep, RecordIntentStep, VerifyRejectsStep,
       RecordFinishStep, RecordHoldStep
  <2>2. CASE \/ \E admitted \in BOOLEAN : Admit(r, o, admitted)
             \/ \E verified \in BOOLEAN : Consume(r, o, verified)
             \/ Verify(r, o)
    BY <2>2, AdmitStep, ConsumeStep, VerifyStep
  <2>3. CASE \/ Uncredentialed(r, o) \/ VerifyStops(r, o) \/ Send(r, o)
             \/ \E evidence \in Evidence \ {"none"} : AdapterReturns(r, o, evidence)
             \/ Retry(r, o) \/ Complete(r, o) \/ Fault(r, o)
    BY <2>3, StopSteps, SendStep, AdapterReturnsStep, RetryStep, EndSteps
  <2> QED BY <1>2, <2>1, <2>2, <2>3 DEF CallStep
<1>3. ASSUME NEW r \in Requests, Arrive(r) \/ Expire(r) PROVE IInv'
  BY <1>3, ArriveStep, ExpireStep
<1>4. ASSUME NEW o \in Owners, Database(o) \/ Crash(o) \/ PinFails(o) PROVE IInv'
  BY <1>4, DatabaseStep, CrashStep, PinFailsStep
<1>5. ASSUME NEW o \in Owners, NEW outcome \in Outcomes,
             Start(o, outcome) \/ Shutdown(o, outcome)
      PROVE  IInv'
  BY <1>5, StartStep, ShutdownStep
<1> QED BY <1>1, <1>2, <1>3, <1>4, <1>5 DEF Next

\* The invariant of the gateways.
THEOREM Invariance == Spec => []IInv
BY InitIInv, NextIInv, PTL DEF Spec

\* Every variable keeps its range, and the history its bound.
THEOREM TypeCorrect == Spec => []TypeOK
BY Invariance, PTL DEF IInv

\* An object in service knows the whole history, which nothing holds, and is its open
\* owner.
THEOREM OwnerKnows == Spec => []OwnerKnowsHistory
<1>1. IInv => OwnerKnowsHistory
  <2> SUFFICES ASSUME IInv, NEW o \in Owners, journal[o].state = "open", ~Held(o)
               PROVE  /\ journal[o].known = domain /\ domain.sequence = Len(log)
                      /\ domain.open /\ domain.owner = o
                      /\ \A i \in DOMAIN log : log[i].kind # "hold" /\ ~log[i].hold
    BY DEF OwnerKnowsHistory
  <2>1. journal[o].known = domain /\ domain.open /\ domain.owner = o /\ ~domain.held
    BY DEF IInv, JournalInv, InService, Held
  <2> QED BY <2>1 DEF IInv, DomainInv, Holds
<1> QED BY <1>1, Invariance, PTL

\* When a request leaves, its intent is the last row of the history, and it has not left
\* before, although the guard's transaction is over.
THEOREM LeavesUnderIntent == Spec => SentUnderIntent
<1> DEFINE Leaves == \A r \in Requests :
                       At(r, call[r].owner, "delegated") /\ call'[r].at = "sent" =>
                         /\ log[Len(log)].kind = "intent" /\ log[Len(log)].request = r
                         /\ r \notin sent
<1>1. IInv /\ [Next]_vars => [Leaves]_vars
  <2> SUFFICES ASSUME IInv, NEW r \in Requests, At(r, call[r].owner, "delegated")
               PROVE  /\ log[Len(log)].kind = "intent" /\ log[Len(log)].request = r
                      /\ r \notin sent
    OBVIOUS
  <2>1. /\ domain.active = r /\ domain.phase = "intent" /\ ~domain.held /\ r \notin sent
    BY DEF IInv, CallInv, Active, At
  <2> QED BY <2>1 DEF IInv, DomainInv
<1> QED BY <1>1, Invariance, PTL DEF Spec, SentUnderIntent

\* Few steps change what has left, has arrived and was answered.
LEMMA HistorySteps ==
  ASSUME [Next]_vars
  PROVE  \/ UNCHANGED history
         \/ \E r \in Requests : Arrive(r)
         \/ \E r \in Requests, o \in Owners :
               Send(r, o) \/ \E evidence \in Evidence \ {"none"} : AdapterReturns(r, o, evidence)
<1> SUFFICES ASSUME ~UNCHANGED history
             PROVE  \/ \E r \in Requests : Arrive(r)
                    \/ \E r \in Requests, o \in Owners :
                          \/ Send(r, o)
                          \/ \E evidence \in Evidence \ {"none"} : AdapterReturns(r, o, evidence)
  OBVIOUS
<1>1. ASSUME NEW r \in Requests, NEW o \in Owners, CallStep(r, o)
      PROVE  Send(r, o) \/ \E evidence \in Evidence \ {"none"} : AdapterReturns(r, o, evidence)
  <2>1. /\ \A b \in BOOLEAN : ~Admit(r, o, b) /\ ~Consume(r, o, b)
        /\ ~Uncredentialed(r, o) /\ ~Verify(r, o) /\ ~VerifyStops(r, o) /\ ~Retry(r, o)
        /\ ~Complete(r, o) /\ ~Fault(r, o)
    BY DEF Admit, Consume, Uncredentialed, Verify, VerifyStops, Retry, Complete, Fault
  <2>2. \A outcome \in Outcomes :
          /\ ~Begin(r, o, outcome) /\ ~RecordIntent(r, o, outcome)
          /\ \A b \in BOOLEAN : ~RecordPolicy(r, o, b, outcome)
          /\ ~VerifyRejects(r, o, outcome) /\ ~RecordFinish(r, o, outcome)
          /\ ~RecordHold(r, o, outcome)
    BY DEF Begin, RecordIntent, RecordPolicy, VerifyRejects, RecordFinish, RecordHold
  <2> QED BY <1>1, <2>1, <2>2 DEF CallStep
<1>2. /\ ~UNCHANGED vars
      /\ \A r \in Requests : ~Expire(r)
      /\ \A o \in Owners : ~Database(o) /\ ~Crash(o) /\ ~PinFails(o)
      /\ \A o \in Owners, outcome \in Outcomes : ~Start(o, outcome) /\ ~Shutdown(o, outcome)
  BY DEF vars, Expire, Database, Crash, PinFails, Start, Shutdown
<1> QED BY <1>1, <1>2 DEF Next

\* A request that arrives is served in the epoch of its intent.
THEOREM ServedInTime == Spec => ServedInOwnEpoch
<1> DEFINE Served == \A r \in arrived' \ arrived : domain.epoch = log[IntentRow(r)].epoch
<1>1. IInv /\ [Next]_vars => [Served]_vars
  <2> SUFFICES ASSUME IInv, IInv', NEW r \in arrived' \ arrived, Next
               PROVE  domain.epoch = log[IntentRow(r)].epoch
    BY NextIInv
  <2>1. r \in sent \ arrived /\ r \in Requests
    BY HistorySteps DEF history, Arrive, Send, AdapterReturns
  <2>2. Recorded("intent", r) /\ IntentsNow(r)
    BY <2>1 DEF IInv, SentInv
  <2>3. IntentRow(r) \in DOMAIN log /\ log[IntentRow(r)].kind = "intent"
        /\ log[IntentRow(r)].request = r
    BY <2>2 DEF Recorded, IntentRow
  <2> QED BY <2>2, <2>3 DEF IntentsNow
<1> QED BY <1>1, Invariance, PTL DEF Spec, ServedInOwnEpoch
-------------------------------------------------------------------------------
\* Rows are written one at a time, each accepted by the state row, by steps that send,
\* serve and answer nothing.
LEMMA Growth ==
  ASSUME IInv, [Next]_vars, log' # log
  PROVE  /\ UNCHANGED history
         /\ \E row : log' = Append(log, row) /\ Accepts(domain, row)
<1> DEFINE Grows == \E row : log' = Append(log, row) /\ Accepts(domain, row)
<1>1. ASSUME NEW o \in Owners, NEW row, NEW outcome \in Outcomes, Transact(o, row, outcome)
      PROVE  Grows
  BY <1>1 DEF Transact
<1>2. ASSUME NEW o \in Owners, NEW kept \in BOOLEAN, SessionEnds(o, kept) PROVE Grows
  BY <1>2 DEF SessionEnds, IInv, PendingInv
<1> HIDE DEF Grows
<1>3. ASSUME NEW r \in Requests, NEW o \in Owners, CallStep(r, o)
      PROVE  UNCHANGED history /\ Grows
  <2>1. /\ \A b \in BOOLEAN : ~Admit(r, o, b) /\ ~Consume(r, o, b)
        /\ ~Uncredentialed(r, o) /\ ~Verify(r, o) /\ ~VerifyStops(r, o) /\ ~Retry(r, o)
        /\ ~Complete(r, o) /\ ~Fault(r, o) /\ ~Send(r, o)
        /\ \A evidence : ~AdapterReturns(r, o, evidence)
    BY DEF Admit, JournalAdmit, Consume, Uncredentialed, Verify, VerifyStops, Retry, Complete,
           Fault, Send, AdapterReturns, journalVars
  <2>2. ASSUME NEW outcome \in Outcomes,
               \/ Begin(r, o, outcome) \/ RecordIntent(r, o, outcome)
               \/ \E b \in BOOLEAN : RecordPolicy(r, o, b, outcome)
               \/ VerifyRejects(r, o, outcome) \/ RecordFinish(r, o, outcome)
               \/ RecordHold(r, o, outcome)
        PROVE  UNCHANGED history /\ \E row : Transact(o, row, outcome)
    BY <2>2 DEF Begin, RecordIntent, RecordPolicy, VerifyRejects, RecordFinish, RecordHold,
                Run, JournalFailed
  <2> QED BY <1>1, <1>3, <2>1, <2>2 DEF CallStep
<1>4. ASSUME NEW o \in Owners, Database(o) PROVE UNCHANGED history /\ Grows
  BY <1>2, <1>4 DEF Database, LockLost
<1>5. ASSUME NEW o \in Owners, NEW outcome \in Outcomes,
             Start(o, outcome) \/ Shutdown(o, outcome)
      PROVE  UNCHANGED history /\ Grows
  <2>1. UNCHANGED history /\ \E row : Transact(o, row, outcome)
    BY <1>5 DEF Start, Boot, Shutdown, JournalClose
  <2> QED BY <1>1, <2>1
<1>6. /\ ~UNCHANGED vars
      /\ \A r \in Requests : ~Expire(r) /\ ~Arrive(r)
      /\ \A o \in Owners : ~Crash(o) /\ ~PinFails(o)
  BY DEF vars, Expire, Arrive, Crash, JournalCrash, PinFails, journalVars
<1>7. UNCHANGED history /\ Grows
  BY <1>3, <1>4, <1>5, <1>6 DEF Next
<1> QED BY <1>7 DEF Grows

\* A request's fate hangs on its own rows and on what happened to it.
LEMMA FateFrame ==
  ASSUME NEW r, Recorded("intent", r)' <=> Recorded("intent", r),
         Recorded("finish", r)' <=> Recorded("finish", r),
         r \in sent' <=> r \in sent, r \in answered' <=> r \in answered
  PROVE  FateOf(r)' = FateOf(r)
BY DEF FateOf, Settled

\* A row is an intent, settles a fate or leaves all of them as they are.
LEMMA RowsKeepLedger ==
  ASSUME IInv, [Next]_vars, log' # log
  PROVE  Ledger!Next \/ \A s \in Requests : FateOf(s)' = FateOf(s)
<1> DEFINE fates == [r \in Requests |-> FateOf(r)]
<1>1. PICK row : log' = Append(log, row) /\ Accepts(domain, row) /\ UNCHANGED history
  BY Growth
<1>2. row \in Rows
  <2>1. log \in Seq(Rows) /\ log' \in Seq(Rows)
    BY NextIInv DEF IInv, TypeOK
  <2> QED BY <1>1, <2>1
<1>3. \A k, s : Recorded(k, s)' <=> Recorded(k, s) \/ (row.kind = k /\ row.request = s)
  BY <1>1, <1>2, AppendedRows DEF IInv, TypeOK
<1>4. row.kind \in {"intent", "finish"} =>
        /\ row.request = domain.active /\ row.request \in Requests /\ ~domain.held
        /\ row.kind = "intent" => domain.phase = "policy"
  BY <1>1 DEF Accepts, IInv, TypeOK, LedgerStates
<1>5. \A s \in Requests : /\ s \in sent => Recorded("intent", s)
                          /\ s = domain.active => ~Recorded("finish", s)
  BY DEF IInv, SentInv, RequestInv
<1>6. UNCHANGED <<sent, answered>>
  BY <1>1 DEF history
<1>7. CASE row.kind \notin {"intent", "finish"}
  BY <1>3, <1>6, <1>7, FateFrame
<1>8. CASE row.kind = "intent"
  <2> DEFINE r == row.request
  <2>1. r \in Requests /\ ~domain.held /\ r = domain.active /\ domain.phase = "policy"
    BY <1>4, <1>8
  <2> HIDE DEF r
  <2>2. ~Recorded("intent", r) /\ ~Recorded("finish", r) /\ r \notin sent
    BY <1>5, <2>1 DEF IInv, RequestInv
  <2>3. FateOf(r) = "none" /\ FateOf(r)' = "intended"
    BY <1>3, <1>6, <1>8, <2>2 DEF FateOf, Settled, r
  <2>4. \A s \in Requests \ {r} : FateOf(s)' = FateOf(s)
    BY <1>3, <1>6, <1>8, FateFrame DEF r
  <2>5. ASSUME NEW s \in Requests \ {r} PROVE FateOf(s) \in {"none", "settled"}
    <3>1. CASE ~Recorded("intent", s)
      BY <1>5, <3>1 DEF FateOf
    <3>2. CASE Recorded("intent", s)
      <4>1. Recorded("finish", s)
        BY <2>1, <3>2 DEF IInv, RequestInv
      <4>2. Settled(s)
        BY <2>1, <4>1 DEF Settled, IInv, SentInv
      <4> QED BY <3>2, <4>2 DEF FateOf
    <3> QED BY <3>1, <3>2
  <2>6. fates' = [fates EXCEPT ![r] = "intended"]
    BY <2>1, <2>3, <2>4
  <2>7. Ledger!Intend(r)
    BY <2>1, <2>3, <2>5, <2>6 DEF Ledger!Intend, Ledger!AllOthersSettled
  <2> QED BY <2>1, <2>7 DEF Ledger!Next
<1>9. CASE row.kind = "finish"
  <2> DEFINE r == row.request
  <2>1. r \in Requests /\ ~Recorded("finish", r)
    BY <1>4, <1>5, <1>9
  <2> HIDE DEF r
  <2>2. \A s \in Requests \ {r} : FateOf(s)' = FateOf(s)
    BY <1>3, <1>6, <1>9, FateFrame DEF r
  <2>3. Recorded("finish", r)' /\ (Recorded("intent", r)' <=> Recorded("intent", r))
    BY <1>3, <1>9 DEF r
  <2>4. CASE Recorded("intent", r) /\ (r \in sent => r \in answered)
    <3>1. FateOf(r) \in {"intended", "dispatched"} /\ FateOf(r)' = "settled"
      BY <1>6, <2>1, <2>3, <2>4 DEF FateOf, Settled
    <3>2. fates' = [fates EXCEPT ![r] = "settled"]
      BY <2>1, <2>2, <3>1
    <3>3. Ledger!Settle(r)
      BY <2>1, <3>1, <3>2 DEF Ledger!Settle
    <3> QED BY <2>1, <3>3 DEF Ledger!Next
  <2>5. CASE ~(Recorded("intent", r) /\ (r \in sent => r \in answered))
    <3>1. FateOf(r)' = FateOf(r)
      BY <1>6, <2>1, <2>3, <2>5 DEF FateOf, Settled
    <3> QED BY <2>2, <3>1
  <2> QED BY <2>4, <2>5
<1> QED BY <1>7, <1>8, <1>9

\* The guarded gateways are the ledger of dispatches: a request leaves after its intent was
\* committed, and while the fate of one is unknown, whichever process it was of, no other
\* is intended.
THEOREM GuardedIsLedger == Spec => ImplementsLedger
<1> DEFINE fates == [r \in Requests |-> FateOf(r)]
<1>1. Init => Ledger!Init
  <2> SUFFICES ASSUME Init PROVE \A r \in Requests : FateOf(r) = "none"
    BY DEF Ledger!Init
  <2>1. sent = {} /\ log = <<Row("provision", NoOwner, 0, NoRequest)>>
    BY DEF Init, JournalInit
  <2>2. \A r \in Requests : ~Recorded("intent", r)
    BY <2>1 DEF Recorded, Row
  <2> QED BY <2>1, <2>2 DEF FateOf
<1>2. IInv /\ [Next]_vars => [Ledger!Next]_fates
  <2> SUFFICES ASSUME IInv, [Next]_vars, ~(\A r \in Requests : FateOf(r)' = FateOf(r))
               PROVE  Ledger!Next
    OBVIOUS
  <2>1. CASE log' # log
    BY <2>1, RowsKeepLedger
  <2>2. CASE log' = log
    <3>1. \A k, s : Recorded(k, s)' <=> Recorded(k, s)
      BY <2>2 DEF Recorded
    <3>2. PICK r \in Requests, o \in Owners :
             Send(r, o) \/ \E evidence \in Evidence \ {"none"} : AdapterReturns(r, o, evidence)
      BY <3>1, HistorySteps, FateFrame DEF history, Arrive
    <3>3. CASE Send(r, o)
      <4>1. /\ call[r].at = "delegated" /\ sent' = sent \cup {r} /\ answered' = answered
        BY <3>3 DEF Send, At
      <4>2. Recorded("intent", r) /\ ~Recorded("finish", r) /\ r \notin sent
        BY <4>1 DEF IInv, CallInv, Active, RequestInv
      <4>3. FateOf(r) = "intended" /\ FateOf(r)' = "dispatched"
        BY <3>1, <4>1, <4>2 DEF FateOf, Settled
      <4>4. \A s \in Requests \ {r} : FateOf(s)' = FateOf(s)
        BY <3>1, <4>1, FateFrame
      <4>5. fates' = [fates EXCEPT ![r] = "dispatched"]
        BY <4>3, <4>4
      <4>6. Ledger!Dispatch(r)
        BY <4>3, <4>5 DEF Ledger!Dispatch
      <4> QED BY <4>6 DEF Ledger!Next
    <3>4. CASE \E evidence \in Evidence \ {"none"} : AdapterReturns(r, o, evidence)
      <4>1. /\ call[r].at \in {"executing", "delegated", "sent"} /\ sent' = sent
            /\ \A s \in Requests \ {r} : s \in answered' <=> s \in answered
        BY <3>4 DEF AdapterReturns
      <4>2. ~Recorded("finish", r)
        BY <4>1 DEF IInv, CallInv, Active, RequestInv
      <4>3. FateOf(r)' = FateOf(r)
        BY <3>1, <4>1, <4>2 DEF FateOf, Settled
      <4>4. \A s \in Requests \ {r} : FateOf(s)' = FateOf(s)
        BY <3>1, <4>1, FateFrame
      <4> QED BY <4>3, <4>4
    <3> QED BY <3>2, <3>3, <3>4
  <2> QED BY <2>1, <2>2
<1> QED BY <1>1, <1>2, Invariance, PTL DEF Spec, ImplementsLedger, Ledger!Spec

\* A request whose intent is committed and whose outcome is not.
Unsettled(r) == FateOf(r) \in {"intended", "dispatched"}
OneUnsettled == \A q, r \in Requests : Unsettled(q) /\ Unsettled(r) => q = r

\* What the ledger lets the fate of a request become.
FateAdvances(r) == \/ FateOf(r)' = FateOf(r)
                   \/ FateOf(r) = "none" /\ FateOf(r)' = "intended"
                   \/ FateOf(r) = "intended" /\ FateOf(r)' = "dispatched"
                   \/ Unsettled(r) /\ FateOf(r)' = "settled"

\* What that comes to: in all processes together at most one request is in doubt, none leaves
\* without an intent or twice, and a settled one stays settled.
THEOREM OneInDoubt == Spec => []OneUnsettled /\ [][\A r \in Requests : FateAdvances(r)]_vars
<1> DEFINE fates == [r \in Requests |-> FateOf(r)]
<1>1. Ledger!Init => OneUnsettled
  <2> SUFFICES ASSUME Ledger!Init PROVE \A r \in Requests : FateOf(r) = "none"
    BY DEF OneUnsettled, Unsettled
  <2>1. \A r \in Requests : fates[r] = "none"
    BY DEF Ledger!Init
  <2> QED BY <2>1
<1>2. OneUnsettled /\ [Ledger!Next]_fates
        => OneUnsettled' /\ \A r \in Requests : FateAdvances(r)
  <2> SUFFICES ASSUME OneUnsettled, [Ledger!Next]_fates
               PROVE  OneUnsettled' /\ \A r \in Requests : FateAdvances(r)
    OBVIOUS
  <2>1. \A r \in Requests : fates[r] = FateOf(r) /\ fates'[r] = FateOf(r)'
    OBVIOUS
  <2>2. CASE fates' = fates
    <3>1. \A r \in Requests : FateOf(r)' = FateOf(r)
      BY <2>1, <2>2
    <3> QED BY <3>1 DEF OneUnsettled, Unsettled, FateAdvances
  <2>3. CASE Ledger!Next
    <3>1. PICK r \in Requests : Ledger!Intend(r) \/ Ledger!Dispatch(r) \/ Ledger!Settle(r)
      BY <2>3 DEF Ledger!Next
    <3>2. \A s \in Requests \ {r} : FateOf(s)' = FateOf(s)
      BY <2>1, <3>1 DEF Ledger!Intend, Ledger!Dispatch, Ledger!Settle
    <3>3. CASE Ledger!Intend(r)
      <4>1. FateOf(r) = "none" /\ FateOf(r)' = "intended"
        BY <2>1, <3>3 DEF Ledger!Intend
      <4>2. \A s \in Requests \ {r} : FateOf(s) \in {"none", "settled"}
        BY <2>1, <3>3 DEF Ledger!Intend, Ledger!AllOthersSettled
      <4> QED BY <3>2, <4>1, <4>2 DEF OneUnsettled, Unsettled, FateAdvances
    <3>4. CASE Ledger!Dispatch(r) \/ Ledger!Settle(r)
      <4>1. \/ FateOf(r) = "intended" /\ FateOf(r)' = "dispatched"
            \/ Unsettled(r) /\ FateOf(r)' = "settled"
        BY <2>1, <3>4 DEF Ledger!Dispatch, Ledger!Settle, Unsettled
      <4> QED BY <3>2, <4>1 DEF OneUnsettled, Unsettled, FateAdvances
    <3> QED BY <3>1, <3>3, <3>4
  <2> QED BY <2>2, <2>3
<1>3. (\A r \in Requests : FateAdvances(r)) => [\A r \in Requests : FateAdvances(r)]_vars
  OBVIOUS
<1> QED BY <1>1, <1>2, <1>3, GuardedIsLedger, PTL DEF ImplementsLedger, Ledger!Spec
===============================================================================
