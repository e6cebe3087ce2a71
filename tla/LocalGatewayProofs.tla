---------------------------- MODULE LocalGatewayProofs ----------------------------
(***************************************************************************)
(* Theorems about LocalJournal and LocalGateway, for any number of           *)
(* processes, requests and rows.  The table is read through a few operators  *)
(* only (Recorded, Pending, HeldByRows, OpenGeneration, ReplayedDenials and   *)
(* the count of tripwire rows); how a new row changes them is said once, and  *)
(* the actions are then reasoned about without looking at rows.              *)
(***************************************************************************)
EXTENDS LocalGateway, FiniteSetTheorems, SequenceTheorems, WellFoundedInduction, TLAPS

Trips == Cardinality(TripwireRows)

\* The greatest count in a finish row; that there is one is part of the invariant.
Top(d) == \A e \in FinishedDenials : e <= d

\* The table: intents are of begun requests, and if nothing in it forbids a restart, the
\* denials it would be restarted with are the tripwire denials on record.
TableInv ==
  /\ log \in Seq(Rows) /\ Len(log) \in 1..MaxEvents
  /\ \E d \in FinishedDenials : Top(d)
  /\ \A r \in Requests : Recorded("intent", r) => Recorded("begin", r)
  /\ Pending = {} /\ ~HeldByRows => Trips = ReplayedDenials

\* The object of a process: only the owner's is in use, and unless it holds it knows the
\* table; while a call is active, the gateway has counted the denials on record.
MemoryInv(p) ==
  LET j == journal[p] IN
  /\ j.state \in {"booting", "open"} => owner = p
  /\ j.state = "booting" => /\ j.sequence = Len(log) /\ j.denials = ReplayedDenials
                            /\ ~j.held /\ j.active = NoRequest
                            /\ Pending = {} /\ ~HeldByRows /\ ~OpenGeneration
  /\ j.state = "open" /\ ~j.held =>
       /\ j.sequence = Len(log) /\ j.denials = ReplayedDenials
       /\ Pending = {j.active} \ {NoRequest}
       /\ ~HeldByRows
       /\ j.active # NoRequest => Trips = gateway[p].denials /\ ReplayedDenials <= Trips

\* The points of a call that has the lock, of one whose request is active, and of one
\* that does not yield to a shutdown.
Running == Points \ {"idle", "waiting", "ended", "lost"}
Active == Running \ {"finished", "failing"}
Unyielding == {"begun", "permitted", "intended"}

\* A call: its rows are as far as it is, what is dispatched is intended, and what is
\* finished is confirmed or holds the table.
CallInv(r) ==
  LET c == call[r]
      j == journal[c.process]
  IN
  /\ r \in dispatched => Recorded("intent", r)
  /\ Recorded("finish", r) /\ r \in dispatched => r \in confirmed \/ HeldByRows
  /\ c.at \in {"idle", "waiting"} => ~Recorded("begin", r) /\ ~Recorded("finish", r)
  /\ c.at \in Running => /\ c.process \in Processes
                         /\ gateway[c.process].lock = r
                         /\ j.state \in {"open", "closed"}
  /\ c.at \in Unyielding => j.state = "open"
  /\ c.at \in Active => /\ Recorded("begin", r) /\ ~Recorded("finish", r)
                        /\ j.state = "open" => ~j.held /\ j.active = r
  /\ c.at \in {"begun", "judging", "assessed", "permitted"} => ~Recorded("intent", r)
  /\ c.at \in {"waiting", "begun"} => ~c.bound
  /\ c.at = "intended" => Recorded("intent", r) /\ r \notin dispatched
  /\ c.at = "executing" => r \in dispatched
  /\ c.at = "settled" /\ ~c.unknown => (r \in dispatched => r \in confirmed)
  /\ c.at \in {"permitted", "intended"} \/ (c.at = "assessed" /\ c.bound) => c.context.denials < 2

IInv == /\ TypeOK /\ TableInv
        /\ \A p \in Processes : MemoryInv(p)
        /\ \A r \in Requests : CallInv(r)
-------------------------------------------------------------------------------
\* The rows of a table with one more row.
LEMMA AppendedIndices ==
  ASSUME log \in Seq(Rows), NEW row \in Rows, log' = Append(log, row)
  PROVE  /\ log' \in Seq(Rows) /\ Len(log) \in Nat /\ Len(log') = Len(log) + 1
         /\ \A i \in 1..Len(log) : log'[i] = log[i]
         /\ log'[Len(log) + 1] = row
         /\ \A k : Indices(k) \subseteq 1..Len(log)
         /\ \A k : Indices(k)' = Indices(k) \cup (IF row.kind = k THEN {Len(log) + 1} ELSE {})
<1>1. /\ log' \in Seq(Rows) /\ Len(log) \in Nat /\ Len(log') = Len(log) + 1
      /\ \A i \in 1..Len(log) : log'[i] = log[i]
      /\ log'[Len(log) + 1] = row
      /\ DOMAIN log = 1..Len(log) /\ DOMAIN log' = 1..(Len(log) + 1)
  OBVIOUS
<1>2. \A k : Indices(k) \subseteq 1..Len(log)
  BY <1>1 DEF Indices
<1>3. \A k : Indices(k)' = Indices(k) \cup (IF row.kind = k THEN {Len(log) + 1} ELSE {})
  BY <1>1 DEF Indices
<1> QED BY <1>1, <1>2, <1>3

\* What is recorded after one more row.
LEMMA AppendedRecorded ==
  ASSUME log \in Seq(Rows), NEW row \in Rows, log' = Append(log, row), NEW k, NEW r
  PROVE  Recorded(k, r)' <=> Recorded(k, r) \/ (row.kind = k /\ row.request = r)
BY AppendedIndices DEF Recorded

\* Who is pending, in terms of what is recorded.
LEMMA PendingRecorded ==
  /\ Pending = {r \in Requests : Recorded("begin", r) /\ ~Recorded("finish", r)}
  /\ Pending' = {r \in Requests : Recorded("begin", r)' /\ ~Recorded("finish", r)'}
BY DEF Pending, Recorded

\* When one more row holds.
LEMMA AppendedHold ==
  ASSUME log \in Seq(Rows), NEW row \in Rows, log' = Append(log, row)
  PROVE  /\ HeldByRows => HeldByRows'
         /\ row.kind = "hold" \/ (row.kind = "finish" /\ row.hold) => HeldByRows'
         /\ HeldByRows' => \/ HeldByRows \/ row.kind = "hold"
                           \/ row.kind = "finish" /\ row.hold
                           \/ row.kind = "boot" /\ OpenGeneration
<1> DEFINE n == Len(log) + 1
<1>1. /\ Len(log) \in Nat
      /\ \A i \in 1..Len(log) : log'[i] = log[i]
      /\ log'[n] = row
      /\ \A k : Indices(k) \subseteq 1..Len(log)
      /\ \A k : Indices(k)' = Indices(k) \cup (IF row.kind = k THEN {n} ELSE {})
  BY AppendedIndices
<1>2. \A i, j \in 1..n : OpenSince(i, j)' <=> OpenSince(i, j)
  BY <1>1 DEF OpenSince
<1>3. HeldByRows => HeldByRows'
  <2>1. CASE Indices("hold") # {}
    BY <1>1, <2>1 DEF HeldByRows
  <2>2. CASE \E i \in Indices("finish") : log[i].hold
    BY <1>1, <2>2 DEF HeldByRows
  <2>3. CASE \E i, j \in Indices("boot") : i < j /\ OpenSince(i, j)
    BY <1>1, <1>2, <2>3 DEF HeldByRows
  <2> QED BY <2>1, <2>2, <2>3 DEF HeldByRows
<1>4. row.kind = "hold" \/ (row.kind = "finish" /\ row.hold) => HeldByRows'
  BY <1>1 DEF HeldByRows
<1>5. ASSUME HeldByRows'
      PROVE  \/ HeldByRows \/ row.kind = "hold"
             \/ row.kind = "finish" /\ row.hold
             \/ row.kind = "boot" /\ OpenGeneration
  <2>1. CASE Indices("hold")' # {}
    BY <1>1, <2>1 DEF HeldByRows
  <2>2. CASE \E i \in Indices("finish")' : log'[i].hold
    BY <1>1, <2>2 DEF HeldByRows
  <2>3. CASE \E i, j \in Indices("boot")' : i < j /\ OpenSince(i, j)'
    <3>1. PICK i \in Indices("boot")', j \in Indices("boot")' : i < j /\ OpenSince(i, j)'
      BY <2>3
    <3>2. i \in 1..n /\ j \in 1..n
      BY <1>1, <3>1
    <3>3. i \in Indices("boot") /\ OpenSince(i, j)
      BY <1>1, <1>2, <3>1, <3>2
    <3>4. CASE j \in Indices("boot")
      BY <3>1, <3>3, <3>4 DEF HeldByRows
    <3>5. CASE j = n /\ row.kind = "boot"
      BY <3>3, <3>5 DEF OpenGeneration
    <3> QED BY <1>1, <3>1, <3>4, <3>5
  <2> QED BY <1>5, <2>1, <2>2, <2>3 DEF HeldByRows
<1> QED BY <1>3, <1>4, <1>5

\* The counts in finish rows are naturals, and the greatest is the one replayed.
LEMMA DenialsReplayed ==
  ASSUME log \in Seq(Rows)
  PROVE  /\ FinishedDenials \subseteq Nat
         /\ \A d \in FinishedDenials : Top(d) => ReplayedDenials = d
<1>1. FinishedDenials \subseteq Nat
  <2>1. \A i \in DOMAIN log : log[i].denials \in Nat
    <3>1. \A i \in DOMAIN log : log[i] \in Rows
      OBVIOUS
    <3>2. \A row \in Rows : row.denials \in Nat
      BY DEF Rows
    <3> QED BY <3>1, <3>2
  <2> QED BY <2>1 DEF FinishedDenials, Indices
<1>2. ASSUME NEW d \in FinishedDenials, Top(d) PROVE ReplayedDenials = d
  <2>1. \A c \in FinishedDenials : (\A e \in FinishedDenials : e <= c) => c = d
    BY <1>1, <1>2 DEF Top
  <2> QED BY <1>2, <2>1 DEF ReplayedDenials, Top
<1> QED BY <1>1, <1>2

\* A finish row moves the denials up to its own, and no other row changes them.
LEMMA AppendedDenials ==
  ASSUME TableInv, NEW row \in Rows, log' = Append(log, row)
  PROVE  /\ \E d \in FinishedDenials' : Top(d)'
         /\ row.kind # "finish" => ReplayedDenials' = ReplayedDenials
         /\ row.kind = "finish" /\ ReplayedDenials <= row.denials =>
                ReplayedDenials' = row.denials
         /\ row.kind = "finish" /\ ~(ReplayedDenials <= row.denials) =>
                ReplayedDenials' = ReplayedDenials
         /\ ReplayedDenials \in Nat
<1> DEFINE n == Len(log) + 1
<1>1. /\ log' \in Seq(Rows)
      /\ \A i \in 1..Len(log) : log'[i] = log[i]
      /\ log'[n] = row
      /\ \A k : Indices(k) \subseteq 1..Len(log)
      /\ \A k : Indices(k)' = Indices(k) \cup (IF row.kind = k THEN {n} ELSE {})
  BY AppendedIndices DEF TableInv
<1>2. FinishedDenials' = FinishedDenials \cup (IF row.kind = "finish" THEN {row.denials} ELSE {})
  BY <1>1 DEF FinishedDenials
<1>3. PICK d \in FinishedDenials : Top(d)
  BY DEF TableInv
<1>4. /\ FinishedDenials \subseteq Nat /\ ReplayedDenials = d /\ d \in Nat
      /\ row.denials \in Nat
  BY <1>3, DenialsReplayed DEF TableInv, Rows
<1>5. /\ FinishedDenials' \subseteq Nat
      /\ \A e \in FinishedDenials' : Top(e)' => ReplayedDenials' = e
  <2>1. \A c, e \in FinishedDenials' : Top(c)' /\ Top(e)' => c = e
    BY <1>2, <1>4 DEF Top
  <2>2. ASSUME NEW e \in FinishedDenials', Top(e)' PROVE ReplayedDenials' = e
    BY <2>1, <2>2 DEF ReplayedDenials, Top
  <2> QED BY <1>2, <1>4, <2>2
<1>6. CASE row.kind # "finish"
  <2>1. FinishedDenials' = FinishedDenials
    BY <1>2, <1>6
  <2> QED BY <1>3, <1>4, <1>5, <1>6, <2>1 DEF Top
<1>7. CASE row.kind = "finish"
  <2>1. FinishedDenials' = FinishedDenials \cup {row.denials}
    BY <1>2, <1>7
  <2>2. CASE d <= row.denials
    <3>1. Top(row.denials)' /\ row.denials \in FinishedDenials'
      BY <1>3, <1>4, <2>1, <2>2 DEF Top
    <3>2. ReplayedDenials' = row.denials /\ ReplayedDenials <= row.denials
      BY <1>4, <1>5, <2>2, <3>1
    <3>3. \E e \in FinishedDenials' : Top(e)'
      BY <3>1
    <3> QED BY <1>4, <1>7, <3>2, <3>3
  <2>3. CASE ~(d <= row.denials)
    <3>1. Top(d)' /\ d \in FinishedDenials'
      BY <1>3, <1>4, <2>1, <2>3 DEF Top
    <3>2. ReplayedDenials' = ReplayedDenials /\ ~(ReplayedDenials <= row.denials)
      BY <1>4, <1>5, <2>3, <3>1
    <3>3. \E e \in FinishedDenials' : Top(e)'
      BY <3>1
    <3> QED BY <1>4, <1>7, <3>2, <3>3
  <2> QED BY <2>2, <2>3
<1> QED BY <1>6, <1>7

\* A policy row of a tripwire denial is one more, and no other row counts.
LEMMA AppendedTrips ==
  ASSUME log \in Seq(Rows), NEW row \in Rows, log' = Append(log, row)
  PROVE  /\ Trips \in Nat
         /\ Trips' = IF row.kind = "policy" /\ row.tripwire THEN Trips + 1 ELSE Trips
<1> DEFINE n == Len(log) + 1
<1>1. /\ Len(log) \in Nat
      /\ \A i \in 1..Len(log) : log'[i] = log[i]
      /\ log'[n] = row
      /\ \A k : Indices(k) \subseteq 1..Len(log)
      /\ \A k : Indices(k)' = Indices(k) \cup (IF row.kind = k THEN {n} ELSE {})
  BY AppendedIndices
<1>2. TripwireRows \subseteq 1..Len(log) /\ n \notin TripwireRows
  BY <1>1 DEF TripwireRows
<1>3. IsFiniteSet(TripwireRows) /\ Trips \in Nat
  <2>1. IsFiniteSet(1..Len(log))
    BY <1>1, FS_Interval
  <2>2. IsFiniteSet(TripwireRows)
    BY <1>2, <2>1, FS_Subset
  <2> QED BY <2>2, FS_CardinalityType DEF Trips
<1>4. TripwireRows' = IF row.kind = "policy" /\ row.tripwire
                      THEN TripwireRows \cup {n} ELSE TripwireRows
  <2>1. CASE row.kind = "policy" /\ row.tripwire
    BY <1>1, <2>1 DEF TripwireRows
  <2>2. CASE ~(row.kind = "policy" /\ row.tripwire)
    BY <1>1, <2>2 DEF TripwireRows
  <2> QED BY <2>1, <2>2
<1>5. Cardinality(TripwireRows \cup {n}) = Trips + 1
  BY <1>2, <1>3, FS_AddElement DEF Trips
<1> QED BY <1>3, <1>4, <1>5 DEF Trips

\* Where the table is unchanged, so is all that is read in it.
LEMMA SameTable ==
  ASSUME log' = log
  PROVE  /\ \A k, r : Recorded(k, r)' <=> Recorded(k, r)
         /\ Pending' = Pending /\ (HeldByRows' <=> HeldByRows)
         /\ (OpenGeneration' <=> OpenGeneration)
         /\ ReplayedDenials' = ReplayedDenials /\ Trips' = Trips
         /\ TableInv => TableInv'
<1>1. \A k : Indices(k)' = Indices(k)
  BY DEF Indices
<1>2. \A k, r : Recorded(k, r)' <=> Recorded(k, r)
  BY <1>1 DEF Recorded
<1>3. Pending' = Pending
  BY <1>1 DEF Pending
<1>4. (HeldByRows' <=> HeldByRows) /\ (OpenGeneration' <=> OpenGeneration)
  BY <1>1 DEF HeldByRows, OpenGeneration, OpenSince
<1>5. FinishedDenials' = FinishedDenials
  BY <1>1 DEF FinishedDenials
<1>6. ReplayedDenials' = ReplayedDenials /\ \A d : Top(d)' <=> Top(d)
  BY <1>5 DEF ReplayedDenials, Top
<1>7. Trips' = Trips
  BY <1>1 DEF Trips, TripwireRows
<1>8. TableInv => TableInv'
  BY <1>2, <1>3, <1>4, <1>5, <1>6, <1>7 DEF TableInv
<1> QED BY <1>2, <1>3, <1>4, <1>6, <1>7, <1>8
-------------------------------------------------------------------------------
\* The rows that are written are rows.
LEMMA RowTypes ==
  ASSUME NEW k \in Kinds, NEW p \in Processes, NEW r \in Requests \cup {NoRequest}
  PROVE  /\ Row(k, p, r) \in Rows
         /\ Row(k, p, r).kind = k /\ Row(k, p, r).request = r
         /\ ~Row(k, p, r).hold /\ ~Row(k, p, r).tripwire
BY DEF Row, Rows

\* A write leaves the table alone or adds its row, in which case the table was what the
\* object remembers and not full.
LEMMA WriteTypes ==
  ASSUME TypeOK, TableInv, NEW p \in Processes, NEW row \in Rows, NEW o \in Outcomes,
         Write(p, row, o)
  PROVE  /\ Len(log)' \in 1..MaxEvents
         /\ \A i \in DOMAIN log' : log'[i] \in Rows
         /\ \/ o = "lost" /\ log' = log
            \/ /\ o # "lost" /\ log' = Append(log, row)
               /\ journal[p].state \in {"booting", "open"}
               /\ Len(log) = journal[p].sequence /\ Len(log) < MaxEvents
<1>1. CASE o = "lost"
  BY <1>1 DEF Write, TypeOK
<1>2. CASE o # "lost"
  <2>1. /\ log' = Append(log, row) /\ journal[p].state \in {"booting", "open"}
        /\ Len(log) = journal[p].sequence /\ Len(log) < MaxEvents
    BY <1>2 DEF Write, CanAppend
  <2>2. /\ log' \in Seq(Rows) /\ Len(log') = Len(log) + 1 /\ Len(log) \in Nat
    BY <2>1, AppendedIndices DEF TableInv
  <2>3. \A i \in DOMAIN log' : log'[i] \in Rows
    BY <2>2
  <2> QED BY <1>2, <2>1, <2>2, <2>3, StoreAssumption
<1> QED BY <1>1, <1>2

\* One more row keeps the table's invariant.
LEMMA AppendedTable ==
  ASSUME TableInv, NEW row \in Rows, log' = Append(log, row), Len(log) < MaxEvents,
         row.kind = "intent" => Recorded("begin", row.request),
         Pending' = {} /\ ~HeldByRows' => Trips' = ReplayedDenials'
  PROVE  TableInv'
<1>1. log' \in Seq(Rows) /\ Len(log') = Len(log) + 1 /\ Len(log) \in Nat
  BY AppendedIndices DEF TableInv
<1>2. \E d \in FinishedDenials' : Top(d)'
  BY AppendedDenials
<1>3. \A r \in Requests : Recorded("intent", r)' => Recorded("begin", r)'
  BY AppendedRecorded DEF TableInv
<1> QED BY <1>1, <1>2, <1>3, StoreAssumption DEF TableInv

\* The object after a write.
LEMMA AppendedFields ==
  ASSUME NEW j \in Journals, NEW o \in Outcomes
  PROVE  /\ Appended(j, o) \in Journals
         /\ Appended(j, o).state = j.state /\ Appended(j, o).active = j.active
         /\ Appended(j, o).denials = j.denials
         /\ Appended(j, o).held = (j.held \/ o # "ok")
         /\ o = "ok" => Appended(j, o).sequence = j.sequence + 1
<1>1. CASE o = "ok"
  BY <1>1 DEF Appended, Journals
<1>2. CASE o # "ok"
  BY <1>2 DEF Appended, Journals
<1> QED BY <1>1, <1>2

\* A call that forgets its snapshot.
LEMMA CallFields ==
  ASSUME TypeOK, NEW r \in Requests, NEW point \in Points
  PROVE  /\ NoContext \in PolicyContexts
         /\ Blank(point) \in Calls /\ Blank(point).at = point /\ ~Blank(point).bound
         /\ Past(r, point) \in Calls /\ Past(r, point).at = point
         /\ Past(r, point).process = call[r].process
         /\ ~Past(r, point).bound /\ ~Past(r, point).unknown
<1>1. NoContext \in PolicyContexts
  BY ClockAssumption DEF NoContext, PolicyContexts, AnyThreshold
<1>2. Blank(point) \in Calls /\ Blank(point).at = point /\ ~Blank(point).bound
  BY <1>1, ClockAssumption DEF Blank, Calls, Topics
<1>3. call[r].process \in Processes \cup {NoProcess}
  BY DEF TypeOK, Calls
<1>4. /\ Past(r, point) \in Calls /\ Past(r, point).at = point
      /\ Past(r, point).process = call[r].process
      /\ ~Past(r, point).bound /\ ~Past(r, point).unknown
  <2>1. \A c \in Calls, q \in Processes \cup {NoProcess} :
           /\ [c EXCEPT !.process = q] \in Calls /\ [c EXCEPT !.process = q].process = q
           /\ [c EXCEPT !.process = q].at = c.at /\ [c EXCEPT !.process = q].bound = c.bound
           /\ [c EXCEPT !.process = q].unknown = c.unknown
    BY DEF Calls
  <2>2. ~Blank(point).unknown
    BY DEF Blank
  <2> QED BY <1>2, <1>3, <2>1, <2>2 DEF Past
<1> QED BY <1>1, <1>2, <1>4

\* A call that goes on to its next point.
LEMMA MovedFields ==
  ASSUME TypeOK, NEW r \in Requests, NEW point \in Points
  PROVE  /\ Moved(r, point) \in Calls /\ Moved(r, point).at = point
         /\ Moved(r, point).process = call[r].process
         /\ Moved(r, point).bound = call[r].bound
         /\ Moved(r, point).context = call[r].context
         /\ Moved(r, point).unknown = call[r].unknown
BY DEF TypeOK, Moved, Calls

\* A step of call r in process p that has its lock, or takes it, touches no other call.
LEMMA Frame ==
  ASSUME IInv, NEW r \in Requests, NEW p \in Processes, gateway[p].lock \in {r, NoRequest},
         TypeOK', TableInv', MemoryInv(p)', CallInv(r)',
         owner' = owner, owner = p \/ log' = log, HeldByRows => HeldByRows',
         \A q \in Processes \ {p} : journal'[q] = journal[q] /\ gateway'[q] = gateway[q],
         \A s \in Requests \ {r} :
            /\ call'[s] = call[s]
            /\ \A k \in {"begin", "intent", "finish"} : Recorded(k, s)' <=> Recorded(k, s)
            /\ s \in dispatched' <=> s \in dispatched
            /\ s \in confirmed' <=> s \in confirmed
  PROVE  IInv'
<1>1. ASSUME NEW q \in Processes \ {p} PROVE MemoryInv(q)'
  <2>1. MemoryInv(q) /\ journal'[q] = journal[q] /\ gateway'[q] = gateway[q]
    BY DEF IInv
  <2>2. CASE owner = p
    <3>1. journal'[q].state \notin {"booting", "open"}
      BY <2>1, <2>2 DEF MemoryInv
    <3> QED BY <3>1 DEF MemoryInv
  <2>3. CASE log' = log
    BY <2>1, <2>3, SameTable DEF MemoryInv
  <2> QED BY <2>2, <2>3
<1>2. ASSUME NEW s \in Requests \ {r} PROVE CallInv(s)'
  <2>1. CallInv(s) /\ call'[s] = call[s]
    BY DEF IInv
  <2>2. call[s].at \in Running => call[s].process \in Processes \ {p}
    BY <2>1, StoreAssumption DEF CallInv
  <2>3. call[s].at \in Unyielding \cup Active => call[s].at \in Running
    BY DEF Unyielding, Active, Running, Points
  <2> QED BY <2>1, <2>2, <2>3 DEF CallInv
<1> QED BY <1>1, <1>2 DEF IInv

\* A step that changes nothing but a call.
LEMMA CallOnly ==
  ASSUME IInv, NEW r \in Requests, NEW c \in Calls, Step(r, c),
         UNCHANGED <<journalVars, now, gateway>>,
         dispatched' \subseteq Requests, confirmed' \subseteq dispatched',
         \A s \in Requests \ {r} : /\ s \in dispatched' <=> s \in dispatched
                                   /\ s \in confirmed' <=> s \in confirmed,
         CallInv(r)'
  PROVE  IInv'
<1>0. UNCHANGED <<log, owner, journal>>
  BY DEF journalVars
<1>1. call'[r] = c /\ \A s \in Requests \ {r} : call'[s] = call[s]
  BY DEF IInv, TypeOK, Step
<1>2. TypeOK'
  BY <1>0 DEF IInv, TypeOK, Step
<1>3. TableInv' /\ \A p \in Processes : MemoryInv(p)'
  BY <1>0, SameTable DEF IInv, MemoryInv
<1>4. ASSUME NEW s \in Requests \ {r} PROVE CallInv(s)'
  BY <1>0, <1>1, SameTable DEF IInv, CallInv
<1> QED BY <1>2, <1>3, <1>4 DEF IInv
-------------------------------------------------------------------------------
\* What a call that runs in process p may rely on.
LEMMA RunningCall ==
  ASSUME IInv, NEW r \in Requests, NEW p \in Processes, call[r].process = p,
         call[r].at \in Running
  PROVE  /\ CallInv(r) /\ MemoryInv(p) /\ TypeOK /\ TableInv
         /\ gateway[p].lock = r /\ journal[p].state \in {"open", "closed"}
         /\ journal[p] \in Journals /\ r \notin {NoRequest}
         /\ call[r] \in Calls
BY StoreAssumption DEF IInv, CallInv, TypeOK

\* A client's call reaches a gateway.
LEMMA ArriveStep ==
  ASSUME IInv, NEW r \in Requests, NEW p \in Processes, NEW topic \in Topics,
         NEW expiry \in 1..MaxTime + 1, Arrive(r, p, topic, expiry)
  PROVE  IInv'
<1> DEFINE c == [Blank("waiting") EXCEPT !.process = p, !.topic = topic, !.credential = expiry]
<1>1. c \in Calls /\ c.at = "waiting" /\ ~c.bound
  <2>1. Blank("waiting") \in Calls /\ Blank("waiting").at = "waiting" /\ ~Blank("waiting").bound
    BY CallFields DEF IInv, Points
  <2>2. p \in Processes \cup {NoProcess} /\ expiry \in 0..MaxTime + 1
    BY ClockAssumption
  <2>3. \A b \in Calls : LET d == [b EXCEPT !.process = p, !.topic = topic, !.credential = expiry]
                         IN  d \in Calls /\ d.at = b.at /\ d.bound = b.bound
    BY <2>2 DEF Calls
  <2> QED BY <2>1, <2>3
<1>2. call'[r] = c /\ UNCHANGED <<log, dispatched, confirmed>>
  BY DEF IInv, TypeOK, Arrive, Step, history, journalVars
<1>3. CallInv(r)'
  BY <1>1, <1>2, SameTable
     DEF IInv, CallInv, Arrive, Running, Active, Unyielding
<1> HIDE DEF c
<1> QED BY <1>1, <1>3, CallOnly DEF Arrive, c, history, IInv, TypeOK

\* A call that ends without more ado, or that fails, whatever it was about to do.
LEMMA StopStep ==
  ASSUME IInv, NEW r \in Requests, UNCHANGED <<journalVars, now, gateway, history>>,
         \/ Step(r, Blank("ended"))
         \/ call[r].at \in Running /\ Step(r, Past(r, "failing"))
  PROVE  IInv'
<1>1. /\ Blank("ended") \in Calls /\ Blank("ended").at = "ended"
      /\ Past(r, "failing") \in Calls /\ Past(r, "failing").at = "failing"
      /\ Past(r, "failing").process = call[r].process
  BY CallFields DEF IInv, Points
<1>2. UNCHANGED <<log, journal, dispatched, confirmed>> /\ CallInv(r) /\ TypeOK
  BY DEF IInv, history, journalVars
<1>3. CASE Step(r, Blank("ended"))
  <2>1. call'[r] = Blank("ended")
    BY <1>2, <1>3 DEF TypeOK, Step
  <2>2. CallInv(r)'
    BY <1>1, <1>2, <2>1, SameTable DEF CallInv, Running, Active, Unyielding
  <2> QED BY <1>1, <1>2, <1>3, <2>2, CallOnly DEF TypeOK
<1>4. CASE call[r].at \in Running /\ Step(r, Past(r, "failing"))
  <2>1. call'[r] = Past(r, "failing")
    BY <1>2, <1>4 DEF TypeOK, Step
  <2>2. CallInv(r)'
    BY <1>1, <1>2, <1>4, <2>1, SameTable DEF CallInv, Active, Running, Unyielding
  <2> QED BY <1>1, <1>2, <1>4, <2>2, CallOnly DEF TypeOK
<1> QED BY <1>3, <1>4

\* The policy permits nothing while two denials are counted.
LEMMA PermitsBelowTwo ==
  ASSUME NEW c \in Calls, NEW judge \in JudgeAnswers \cup {P!NoSignal},
         Decide(c, judge) = "PERMIT"
  PROVE  c.context.denials < 2
<1> DEFINE facts == FactsOf(c.topic)
           k == P!Inspect(facts.tripwires, judge, c.context.denials, TRUE)
<1>1. c.context.denials \in Nat
  BY DEF Calls, PolicyContexts
<1>2. SUFFICES ASSUME c.context.denials >= 2 PROVE FALSE
  BY <1>1
<1>3. k.containment
  BY <1>2 DEF P!Inspect, P!Contains
<1>4. "CONTAINMENT_REQUIRED" \in P!DenyReasons(facts, k)
  BY <1>3 DEF P!DenyReasons
<1>5. P!Evaluate(facts, judge, k, c.context.threshold).decision = "DENY"
  BY <1>4 DEF P!Evaluate
<1> QED BY <1>5 DEF Decide

\* Every decision of the policy is one.
LEMMA DecideTypes ==
  ASSUME NEW c \in Calls, NEW judge
  PROVE  Decide(c, judge) \in P!Decisions
BY DEF Decide, P!Evaluate, P!Decisions
\* The preflight leaves the call to the judge, or assessed as denied without an envelope.
LEMMA PreflightStep ==
  ASSUME IInv, NEW r \in Requests, NEW p \in Processes, Preflight(r, p)
  PROVE  IInv'
<1> DEFINE c == IF Decide(call[r], P!NoSignal) = "DENY"
                THEN [Moved(r, "assessed") EXCEPT !.decision = "DENY"]
                ELSE Moved(r, "judging")
<1>1. /\ call[r].at = "begun" /\ call[r].process = p /\ Step(r, c)
      /\ UNCHANGED <<journalVars, now, gateway, log, journal, dispatched, confirmed>>
  BY DEF Preflight, At, history, journalVars
<1>2. CallInv(r) /\ TypeOK
  BY DEF IInv
<1>3. c \in Calls /\ c.at \in {"assessed", "judging"} /\ c.process = p /\ ~c.bound
  <2>1. \A m \in Calls : LET d == [m EXCEPT !.decision = "DENY"]
                         IN  d \in Calls /\ d.at = m.at /\ d.process = m.process /\ d.bound = m.bound
    BY DEF Calls, P!Decisions
  <2>2. ~call[r].bound
    BY <1>1, <1>2 DEF CallInv
  <2> QED BY <1>1, <1>2, <2>1, <2>2, MovedFields DEF Points
<1> HIDE DEF c
<1>4. call'[r] = c
  BY <1>1, <1>2 DEF TypeOK, Step
<1>5. CallInv(r)'
  BY <1>1, <1>2, <1>3, <1>4, SameTable DEF CallInv, Active, Running, Unyielding, Points
<1> QED BY <1>1, <1>2, <1>3, <1>5, CallOnly DEF TypeOK

\* The judge answers; an envelope is issued for a permit only.
LEMMA AnswerStep ==
  ASSUME IInv, NEW r \in Requests, NEW p \in Processes, NEW judge \in JudgeAnswers,
         NEW issued \in BOOLEAN, Answer(r, p, judge, issued)
  PROVE  IInv'
<1> DEFINE d == Decide(call[r], judge)
           e == IF issued THEN now + MaxAge ELSE 0
           c == [Moved(r, "assessed") EXCEPT !.decision = d, !.bound = issued, !.expires = e]
<1>1. /\ call[r].at = "judging" /\ call[r].process = p /\ Step(r, c)
      /\ issued => d = "PERMIT"
      /\ UNCHANGED <<journalVars, now, gateway, log, journal, dispatched, confirmed>>
  BY DEF Answer, At, history, journalVars
<1>2. CallInv(r) /\ TypeOK /\ call[r] \in Calls
  BY DEF IInv, TypeOK
<1>3. d \in P!Decisions \cup {"NONE"} /\ e \in Nat
  BY <1>2, DecideTypes, ClockAssumption DEF TypeOK, Times
<1>4. issued => call[r].context.denials < 2
  BY <1>1, <1>2, PermitsBelowTwo
<1> HIDE DEF d, e
<1>5. c \in Calls /\ c.at = "assessed" /\ c.process = p /\ c.bound = issued
      /\ c.context = call[r].context
  <2>1. \A m \in Calls : LET n == [m EXCEPT !.decision = d, !.bound = issued, !.expires = e]
                         IN  /\ n \in Calls /\ n.at = m.at /\ n.process = m.process
                             /\ n.bound = issued /\ n.context = m.context
    BY <1>3 DEF Calls
  <2>2. /\ Moved(r, "assessed") \in Calls /\ Moved(r, "assessed").at = "assessed"
        /\ Moved(r, "assessed").process = p /\ Moved(r, "assessed").context = call[r].context
    BY <1>1, <1>2, MovedFields DEF Points
  <2> QED BY <2>1, <2>2
<1> HIDE DEF c
<1>6. call'[r] = c
  BY <1>1, <1>2 DEF TypeOK, Step
<1>7. CallInv(r)'
  BY <1>1, <1>2, <1>4, <1>5, <1>6, SameTable
     DEF CallInv, Active, Running, Unyielding, Points
<1> QED BY <1>1, <1>2, <1>5, <1>7, CallOnly DEF TypeOK

\* The adapter is entered for a request that is intended and not finished.
LEMMA DispatchStep ==
  ASSUME IInv, NEW r \in Requests, NEW p \in Processes, Dispatch(r, p)
  PROVE  IInv'
<1>1. /\ call[r].at = "intended" /\ call[r].process = p /\ Step(r, Past(r, "executing"))
      /\ dispatched' = dispatched \cup {r}
      /\ UNCHANGED <<journalVars, now, gateway, log, journal, confirmed>>
  BY DEF Dispatch, At, journalVars
<1>2. CallInv(r) /\ TypeOK
  BY DEF IInv
<1>3. /\ Past(r, "executing") \in Calls /\ Past(r, "executing").at = "executing"
      /\ Past(r, "executing").process = p
  BY <1>1, <1>2, CallFields DEF Points
<1>4. call'[r] = Past(r, "executing")
  BY <1>1, <1>2 DEF TypeOK, Step
<1>5. CallInv(r)'
  BY <1>1, <1>2, <1>3, <1>4, SameTable DEF CallInv, Active, Running, Unyielding, Points
<1> QED BY <1>1, <1>2, <1>3, <1>5, CallOnly DEF TypeOK

\* An envelope that consume() refuses settles the call without a dispatch.
LEMMA BindingInvalidStep ==
  ASSUME IInv, NEW r \in Requests, NEW p \in Processes, BindingInvalid(r, p)
  PROVE  IInv'
<1>1. /\ call[r].at = "intended" /\ call[r].process = p /\ Step(r, Past(r, "settled"))
      /\ UNCHANGED <<journalVars, now, gateway, log, journal, dispatched, confirmed>>
  BY DEF BindingInvalid, At, journalVars, history
<1>2. CallInv(r) /\ TypeOK
  BY DEF IInv
<1>3. /\ Past(r, "settled") \in Calls /\ Past(r, "settled").at = "settled"
      /\ Past(r, "settled").process = p
  BY <1>1, <1>2, CallFields DEF Points
<1>4. call'[r] = Past(r, "settled")
  BY <1>1, <1>2 DEF TypeOK, Step
<1>5. CallInv(r)'
  BY <1>1, <1>2, <1>3, <1>4, SameTable DEF CallInv, Active, Running, Unyielding, Points
<1> QED BY <1>1, <1>2, <1>3, <1>5, CallOnly DEF TypeOK

\* The adapter's return settles the call, as unknown or confirmed.
LEMMA AdapterReturnsStep ==
  ASSUME IInv, NEW r \in Requests, NEW p \in Processes, NEW unknown \in BOOLEAN,
         AdapterReturns(r, p, unknown)
  PROVE  IInv'
<1> DEFINE c == [Past(r, "settled") EXCEPT !.unknown = unknown]
<1>1. /\ call[r].at = "executing" /\ call[r].process = p /\ Step(r, c)
      /\ confirmed' = IF unknown THEN confirmed ELSE confirmed \cup {r}
      /\ UNCHANGED <<journalVars, now, gateway, log, journal, dispatched>>
  BY DEF AdapterReturns, At, journalVars
<1>2. CallInv(r) /\ TypeOK
  BY DEF IInv
<1>3. c \in Calls /\ c.at = "settled" /\ c.process = p /\ c.unknown = unknown
  <2>1. \A m \in Calls : LET d == [m EXCEPT !.unknown = unknown]
                         IN  /\ d \in Calls /\ d.at = m.at /\ d.process = m.process
                             /\ d.unknown = unknown
    BY DEF Calls
  <2> QED BY <1>1, <1>2, <2>1, CallFields DEF Points
<1> HIDE DEF c
<1>4. call'[r] = c
  BY <1>1, <1>2 DEF TypeOK, Step
<1>5. CallInv(r)'
  BY <1>1, <1>2, <1>3, <1>4, SameTable DEF CallInv, Active, Running, Unyielding, Points
<1>6. /\ r \in dispatched /\ dispatched' \subseteq Requests /\ confirmed' \subseteq dispatched'
      /\ \A s \in Requests \ {r} : s \in confirmed' <=> s \in confirmed
  BY <1>1, <1>2 DEF TypeOK, CallInv
<1> QED BY <1>1, <1>3, <1>5, <1>6, CallOnly
\* The completed call releases the lock.
LEMMA CompleteStep ==
  ASSUME IInv, NEW r \in Requests, NEW p \in Processes, Complete(r, p)
  PROVE  IInv'
<1>1. /\ call[r].at = "finished" /\ call[r].process = p /\ Step(r, Blank("ended"))
      /\ gateway' = [gateway EXCEPT ![p].lock = NoRequest]
      /\ UNCHANGED <<log, owner, journal, now, dispatched, confirmed>>
  BY DEF Complete, At, Unlocked, journalVars, history
<1>2. /\ CallInv(r) /\ MemoryInv(p) /\ TypeOK /\ TableInv /\ gateway[p].lock = r
  BY <1>1, RunningCall DEF Running, Points
<1>3. Blank("ended") \in Calls /\ Blank("ended").at = "ended"
  BY <1>2, CallFields DEF Points
<1>4. call'[r] = Blank("ended") /\ \A s \in Requests \ {r} : call'[s] = call[s]
  BY <1>1, <1>2 DEF TypeOK, Step
<1>5. /\ gateway' \in [Processes -> Gateways] /\ gateway'[p].denials = gateway[p].denials
      /\ \A q \in Processes \ {p} : gateway'[q] = gateway[q]
  BY <1>1, <1>2 DEF TypeOK, Gateways
<1>6. TypeOK'
  BY <1>1, <1>2, <1>3, <1>5 DEF TypeOK, Step
<1>7. TableInv' /\ MemoryInv(p)'
  BY <1>1, <1>2, <1>5, SameTable DEF MemoryInv
<1>8. CallInv(r)'
  BY <1>1, <1>2, <1>3, <1>4, SameTable DEF CallInv, Running, Active, Unyielding
<1> QED BY <1>1, <1>2, <1>4, <1>5, <1>6, <1>7, <1>8, SameTable, Frame

\* Calls and objects are read through the locks and the denials of the gateways only.
LEMMA ReconfigureStep ==
  ASSUME IInv, NEW p \in Processes, NEW t \in Thresholds, Reconfigure(p, t)
  PROVE  IInv'
<1>1. /\ gateway' = [gateway EXCEPT ![p].threshold = t]
      /\ UNCHANGED <<log, owner, journal, now, call, dispatched, confirmed>>
  BY DEF Reconfigure, journalVars, history
<1>2. /\ gateway' \in [Processes -> Gateways]
      /\ \A q \in Processes : /\ gateway'[q].denials = gateway[q].denials
                              /\ gateway'[q].lock = gateway[q].lock
  BY <1>1 DEF IInv, TypeOK, Gateways
<1>3. TypeOK' /\ TableInv'
  BY <1>1, <1>2, SameTable DEF IInv, TypeOK
<1>4. \A q \in Processes : MemoryInv(q)'
  BY <1>1, <1>2, SameTable DEF IInv, MemoryInv
<1>5. \A r \in Requests : CallInv(r)'
  BY <1>1, <1>2, SameTable DEF IInv, CallInv
<1> QED BY <1>3, <1>4, <1>5 DEF IInv

\* Nothing but the clock.
LEMMA TickStep ==
  ASSUME IInv, now' \in Times,
         UNCHANGED <<log, owner, journal, gateway, call, dispatched, confirmed>>
  PROVE  IInv'
<1>1. TypeOK' /\ TableInv'
  BY SameTable DEF IInv, TypeOK
<1>2. \A q \in Processes : MemoryInv(q)'
  BY SameTable DEF IInv, MemoryInv
<1>3. \A r \in Requests : CallInv(r)'
  BY SameTable DEF IInv, CallInv
<1> QED BY <1>1, <1>2, <1>3 DEF IInv

\* No call runs in a process that has not booted, or has ended.
LEMMA NotRunning ==
  ASSUME IInv, NEW p \in Processes, journal[p].state \notin {"open", "closed"},
         NEW r \in Requests, call[r].at \in Running
  PROVE  call[r].process \in Processes \ {p}
BY DEF IInv, CallInv

\* A step of process p alone, in which no call runs afterwards, touches no call elsewhere.
LEMMA ElsewhereFrame ==
  ASSUME IInv, NEW p \in Processes, NEW r \in Requests, call'[r] = call[r],
         call[r].at \in Running => call[r].process \in Processes \ {p},
         \A q \in Processes \ {p} : journal'[q] = journal[q] /\ gateway'[q] = gateway[q],
         \A k \in {"begin", "intent", "finish"} : Recorded(k, r)' <=> Recorded(k, r),
         HeldByRows => HeldByRows', UNCHANGED <<dispatched, confirmed>>
  PROVE  CallInv(r)'
<1>1. call[r].at \in Unyielding \cup Active => call[r].at \in Running
  BY DEF Unyielding, Active, Running, Points
<1> QED BY <1>1 DEF IInv, CallInv

\* The constructor takes the lock on a store that nothing forbids to open, or gives up.
LEMMA StartStep ==
  ASSUME IInv, NEW p \in Processes, Start(p)
  PROVE  IInv'
<1>1. /\ journal[p].state = "new" /\ owner = NoProcess
      /\ UNCHANGED <<log, now, gateway, call, dispatched, confirmed>>
      /\ \A q \in Processes \ {p} : journal'[q] = journal[q]
  BY DEF Start, Recover, SetJournal, IInv, TypeOK, history
<1>2. ReplayedDenials \in Nat /\ Len(log) \in Nat
  BY DenialsReplayed, StoreAssumption DEF IInv, TableInv
<1>3. CASE RecoveryHold \/ Len(log) >= MaxEvents
  <2>1. journal' = [journal EXCEPT ![p] = Fresh("gone")] /\ owner' = owner
    BY <1>3 DEF Start, Recover, SetJournal
  <2>2. TypeOK' /\ journal'[p].state = "gone"
    BY <1>1, <2>1 DEF IInv, TypeOK, Journals, Fresh
  <2>3. \A q \in Processes : MemoryInv(q)'
    BY <1>1, <2>1, <2>2, SameTable DEF IInv, MemoryInv
  <2>4. \A r \in Requests : CallInv(r)'
    BY <1>1, SameTable, NotRunning, ElsewhereFrame
  <2> QED BY <1>1, <2>2, <2>3, <2>4, SameTable DEF IInv
<1>4. CASE ~(RecoveryHold \/ Len(log) >= MaxEvents)
  <2> DEFINE j == [Fresh("booting") EXCEPT !.denials = ReplayedDenials, !.sequence = Len(log)]
  <2>1. journal' = [journal EXCEPT ![p] = j] /\ owner' = p
    BY <1>4 DEF Start, Recover, SetJournal
  <2>2. /\ j \in Journals /\ j.state = "booting" /\ ~j.held /\ j.active = NoRequest
        /\ j.denials = ReplayedDenials /\ j.sequence = Len(log)
    BY <1>2 DEF Journals, Fresh
  <2> HIDE DEF j
  <2>3. TypeOK' /\ journal'[p] = j
    BY <1>1, <2>1, <2>2 DEF IInv, TypeOK
  <2>4. MemoryInv(p)'
    BY <1>1, <1>4, <2>1, <2>2, <2>3, SameTable DEF MemoryInv, RecoveryHold
  <2>5. ASSUME NEW q \in Processes \ {p} PROVE MemoryInv(q)'
    <3>1. journal[q].state \notin {"booting", "open"}
      BY <1>1, StoreAssumption DEF IInv, MemoryInv
    <3> QED BY <1>1, <3>1 DEF MemoryInv
  <2>6. \A r \in Requests : CallInv(r)'
    BY <1>1, SameTable, NotRunning, ElsewhereFrame
  <2> QED BY <1>1, <2>3, <2>4, <2>5, <2>6, SameTable DEF IInv
<1> QED BY <1>3, <1>4
\* A process that dies takes its calls with it.
LEMMA CrashStep ==
  ASSUME IInv, NEW p \in Processes, Crash(p)
  PROVE  IInv'
<1>1. /\ journal' = [journal EXCEPT ![p] = Fresh("gone")]
      /\ owner' = (IF owner = p THEN NoProcess ELSE owner)
      /\ UNCHANGED <<log, now, dispatched, confirmed>>
      /\ call' = [r \in Requests |-> IF call[r].process = p THEN Blank("lost") ELSE call[r]]
  BY DEF Crash, JournalCrash, SetJournal, history
<1>2. /\ journal' \in [Processes -> Journals] /\ journal'[p].state = "gone"
      /\ gateway' \in [Processes -> Gateways]
      /\ \A q \in Processes \ {p} : journal'[q] = journal[q] /\ gateway'[q] = gateway[q]
  <2>1. Fresh("gone") \in Journals /\ Fresh("gone").state = "gone"
    BY DEF Journals, Fresh
  <2>2. [denials |-> 0, threshold |-> AnyThreshold, lock |-> NoRequest] \in Gateways
    BY ClockAssumption DEF Gateways, AnyThreshold
  <2> QED BY <1>1, <2>1, <2>2 DEF IInv, TypeOK, Crash
<1>3. ASSUME NEW r \in Requests PROVE Blank("lost") \in Calls /\ Blank("lost").at = "lost"
  BY CallFields DEF IInv, Points
<1>4. TypeOK'
  BY <1>1, <1>2, <1>3 DEF IInv, TypeOK
<1>5. ASSUME NEW q \in Processes PROVE MemoryInv(q)'
  <2>1. CASE q = p
    BY <1>2, <2>1 DEF MemoryInv
  <2>2. CASE q # p
    <3>1. journal[q].state \in {"booting", "open"} => owner' = owner
      BY <1>1, <2>2 DEF IInv, MemoryInv
    <3> QED BY <1>1, <1>2, <2>2, <3>1, SameTable DEF IInv, MemoryInv
  <2> QED BY <2>1, <2>2
<1>6. ASSUME NEW r \in Requests PROVE CallInv(r)'
  <2>1. CASE call[r].process = p
    <3>1. call'[r] = Blank("lost")
      BY <1>1, <2>1
    <3>2. CallInv(r)
      BY DEF IInv
    <3> QED BY <1>1, <1>3, <3>1, <3>2, SameTable DEF CallInv, Running, Active, Unyielding
  <2>2. CASE call[r].process # p
    <3>1. call'[r] = call[r] /\ (call[r].at \in Running => call[r].process \in Processes \ {p})
      BY <1>1, <2>2 DEF IInv, CallInv
    <3> QED BY <1>1, <1>2, <3>1, SameTable, ElsewhereFrame
  <2> QED BY <2>1, <2>2
<1> QED BY <1>1, <1>4, <1>5, <1>6, SameTable DEF IInv

\* A row that is neither of a request nor a hold, on a table that no generation holds open
\* or that is being closed, changes nothing that is read but the generation.
LEMMA BoundaryRow ==
  ASSUME TableInv, NEW row \in Rows, log' = Append(log, row), Len(log) < MaxEvents,
         (row.kind = "boot" /\ ~OpenGeneration) \/ row.kind = "close", ~row.hold
  PROVE  /\ TableInv'
         /\ \A k \in {"begin", "intent", "finish"} : \A r \in Requests :
               Recorded(k, r)' <=> Recorded(k, r)
         /\ Pending' = Pending /\ (HeldByRows' <=> HeldByRows)
         /\ ReplayedDenials' = ReplayedDenials
<1>1. \A k \in {"begin", "intent", "finish"} : \A r \in Requests :
         Recorded(k, r)' <=> Recorded(k, r)
  BY AppendedRecorded DEF TableInv
<1>2. Pending' = Pending
  BY <1>1, PendingRecorded
<1>3. HeldByRows' <=> HeldByRows
  BY AppendedHold DEF TableInv
<1>4. ReplayedDenials' = ReplayedDenials /\ Trips' = Trips
  BY AppendedDenials, AppendedTrips DEF TableInv
<1>5. TableInv'
  BY <1>2, <1>3, <1>4, AppendedTable DEF TableInv
<1> QED BY <1>1, <1>2, <1>3, <1>4, <1>5
\* The boot row: the object is in service, or the store is released again.
LEMMA BootStep ==
  ASSUME IInv, NEW p \in Processes, NEW o \in Outcomes, BootUp(p, o)
  PROVE  IInv'
<1> DEFINE row == Row("boot", p, NoRequest)
           j == [Appended(journal[p], o) EXCEPT !.state = "open"]
<1>1. /\ journal[p].state = "booting" /\ Write(p, row, o)
      /\ UNCHANGED <<now, gateway, call, dispatched, confirmed>>
      /\ o = "ok" => journal' = [journal EXCEPT ![p] = j] /\ owner' = owner
      /\ o # "ok" => journal' = [journal EXCEPT ![p] = Fresh("gone")] /\ owner' = NoProcess
  BY DEF BootUp, Boot, SetJournal, history
<1>2. TypeOK /\ TableInv /\ MemoryInv(p) /\ journal[p] \in Journals
  BY DEF IInv, TypeOK
<1>3. row \in Rows /\ row.kind = "boot" /\ ~row.hold
  BY RowTypes DEF Kinds
<1> HIDE DEF row
<1>4. /\ Len(log)' \in 1..MaxEvents /\ \A i \in DOMAIN log' : log'[i] \in Rows
      /\ \/ o = "lost" /\ log' = log
         \/ o # "lost" /\ log' = Append(log, row) /\ Len(log) < MaxEvents
  BY <1>1, <1>2, <1>3, WriteTypes
<1>5. /\ TableInv'
      /\ \A k \in {"begin", "intent", "finish"} : \A r \in Requests :
            Recorded(k, r)' <=> Recorded(k, r)
      /\ Pending' = Pending /\ (HeldByRows' <=> HeldByRows)
      /\ ReplayedDenials' = ReplayedDenials
  BY <1>1, <1>2, <1>3, <1>4, SameTable, BoundaryRow DEF MemoryInv
<1>6. /\ j \in Journals /\ j.state = "open" /\ j.active = NoRequest
      /\ j.denials = journal[p].denials /\ j.held = (o # "ok")
      /\ o = "ok" => j.sequence = journal[p].sequence + 1
  <2>1. /\ Appended(journal[p], o) \in Journals
        /\ Appended(journal[p], o).active = NoRequest
        /\ Appended(journal[p], o).denials = journal[p].denials
        /\ Appended(journal[p], o).held = (o # "ok")
        /\ o = "ok" => Appended(journal[p], o).sequence = journal[p].sequence + 1
    BY <1>1, <1>2, AppendedFields DEF MemoryInv
  <2> QED BY <2>1 DEF Journals
<1> HIDE DEF j
<1>7. \A q \in Processes \ {p} : /\ journal'[q] = journal[q]
                                 /\ journal[q].state \notin {"booting", "open"}
  BY <1>1, <1>2 DEF IInv, TypeOK, MemoryInv
<1>8. \A q \in Processes \ {p} : MemoryInv(q)'
  BY <1>7 DEF MemoryInv
<1>9. \A r \in Requests : CallInv(r)'
  BY <1>1, <1>5, <1>7, NotRunning, ElsewhereFrame
<1>10. CASE o = "ok"
  <2>1. TypeOK' /\ journal'[p] = j /\ owner' = p
    BY <1>1, <1>2, <1>4, <1>6, <1>10 DEF TypeOK, MemoryInv
  <2>2. Len(log') = Len(log) + 1
    BY <1>2, <1>3, <1>4, <1>10, AppendedIndices DEF TableInv
  <2>3. MemoryInv(p)'
    BY <1>1, <1>2, <1>5, <1>6, <1>10, <2>1, <2>2 DEF MemoryInv
  <2> QED BY <1>5, <1>8, <1>9, <2>1, <2>3 DEF IInv
<1>11. CASE o # "ok"
  <2>1. Fresh("gone") \in Journals /\ Fresh("gone").state = "gone"
    BY DEF Fresh, Journals
  <2>2. TypeOK' /\ journal'[p] = Fresh("gone")
    BY <1>1, <1>2, <1>4, <1>11, <2>1 DEF TypeOK
  <2>3. MemoryInv(p)'
    BY <2>1, <2>2 DEF MemoryInv
  <2> QED BY <1>5, <1>8, <1>9, <2>2, <2>3 DEF IInv
<1> QED BY <1>10, <1>11

\* The server shuts down at a moment at which every call that runs in it can be left.
LEMMA ShutdownStep ==
  ASSUME IInv, NEW p \in Processes, NEW o \in Outcomes, Shutdown(p, o)
  PROVE  IInv'
<1> DEFINE row == Row("close", p, NoRequest)
<1>1. /\ journal[p].state = "open" /\ Yielding(p)
      /\ journal' = [journal EXCEPT ![p] = Fresh("closed")] /\ owner' = NoProcess
      /\ Write(p, row, o) \/ (o = "lost" /\ log' = log)
      /\ UNCHANGED <<now, gateway, call, dispatched, confirmed>>
  BY DEF Shutdown, JournalClose, SetJournal, history
<1>2. TypeOK /\ TableInv /\ MemoryInv(p)
  BY DEF IInv
<1>3. row \in Rows /\ row.kind = "close" /\ ~row.hold
  BY RowTypes DEF Kinds
<1> HIDE DEF row
<1>4. /\ Len(log)' \in 1..MaxEvents /\ \A i \in DOMAIN log' : log'[i] \in Rows
      /\ \/ log' = log
         \/ log' = Append(log, row) /\ Len(log) < MaxEvents
  BY <1>1, <1>2, <1>3, WriteTypes DEF TypeOK
<1>5. /\ TableInv'
      /\ \A k \in {"begin", "intent", "finish"} : \A r \in Requests :
            Recorded(k, r)' <=> Recorded(k, r)
      /\ HeldByRows' <=> HeldByRows
  BY <1>2, <1>3, <1>4, SameTable, BoundaryRow
<1>6. Fresh("closed") \in Journals /\ Fresh("closed").state = "closed"
  BY DEF Fresh, Journals
<1>7. TypeOK' /\ journal'[p].state = "closed"
  BY <1>1, <1>2, <1>4, <1>6 DEF TypeOK
<1>8. \A q \in Processes \ {p} : /\ journal'[q] = journal[q]
                                 /\ journal[q].state \notin {"booting", "open"}
  BY <1>1, <1>2 DEF IInv, TypeOK, MemoryInv
<1>9. \A q \in Processes : MemoryInv(q)'
  BY <1>7, <1>8 DEF MemoryInv
<1>10. ASSUME NEW r \in Requests PROVE CallInv(r)'
  <2>1. CASE call[r].at \in Running /\ call[r].process = p
    <3>1. gateway[p].lock = r /\ CallInv(r)
      BY <2>1 DEF IInv, CallInv
    <3>2. call[r].at \in {"judging", "executing"}
      BY <1>1, <3>1 DEF Yielding
    <3> QED BY <1>1, <1>5, <1>7, <2>1, <3>1, <3>2 DEF CallInv, Unyielding
  <2>2. CASE ~(call[r].at \in Running /\ call[r].process = p)
    <3>1. call[r].at \in Running => call[r].process \in Processes \ {p}
      BY <2>2 DEF IInv, CallInv
    <3>2. \A q \in Processes \ {p} : journal'[q] = journal[q] /\ gateway'[q] = gateway[q]
      BY <1>1, <1>8
    <3> QED BY <1>1, <1>5, <3>1, <3>2, ElsewhereFrame
  <2> QED BY <2>1, <2>2
<1> QED BY <1>5, <1>7, <1>9, <1>10 DEF IInv
-------------------------------------------------------------------------------
\* What the row of a request's call changes in what is read of the table.
LEMMA RequestRow ==
  ASSUME TableInv, NEW r \in Requests, NEW row \in Rows, log' = Append(log, row),
         row.kind \in {"begin", "policy", "intent", "finish"}, row.request = r
  PROVE  /\ Len(log') = Len(log) + 1
         /\ \A k \in {"begin", "intent", "finish"} :
               /\ Recorded(k, r)' <=> Recorded(k, r) \/ row.kind = k
               /\ \A s \in Requests \ {r} : Recorded(k, s)' <=> Recorded(k, s)
         /\ HeldByRows' <=> HeldByRows \/ (row.kind = "finish" /\ row.hold)
         /\ row.kind \in {"policy", "intent"} => Pending' = Pending
         /\ row.kind = "begin" /\ ~Recorded("finish", r) => Pending' = Pending \cup {r}
         /\ row.kind = "finish" => Pending' = Pending \ {r}
<1>1. Len(log') = Len(log) + 1
  BY AppendedIndices DEF TableInv
<1>2. \A k : /\ Recorded(k, r)' <=> Recorded(k, r) \/ row.kind = k
             /\ \A s \in Requests \ {r} : Recorded(k, s)' <=> Recorded(k, s)
  BY AppendedRecorded DEF TableInv
<1>3. HeldByRows' <=> HeldByRows \/ (row.kind = "finish" /\ row.hold)
  BY AppendedHold DEF TableInv
<1>4. /\ Pending = {s \in Requests : Recorded("begin", s) /\ ~Recorded("finish", s)}
      /\ Pending' = {s \in Requests : Recorded("begin", s)' /\ ~Recorded("finish", s)'}
  BY PendingRecorded
<1>5. row.kind \in {"policy", "intent"} => Pending' = Pending
  BY <1>2, <1>4
<1>6. row.kind = "begin" /\ ~Recorded("finish", r) => Pending' = Pending \cup {r}
  BY <1>2, <1>4
<1>7. row.kind = "finish" => Pending' = Pending \ {r}
  BY <1>2, <1>4
<1> QED BY <1>1, <1>2, <1>3, <1>5, <1>6, <1>7

\* While a request is pending, no row of it can make the table wrong but the finish row.
LEMMA PendingRow ==
  ASSUME TableInv, NEW r \in Requests, NEW row \in Rows, log' = Append(log, row),
         Len(log) < MaxEvents, row.kind \in {"begin", "policy", "intent"}, row.request = r,
         row.kind # "begin" => Recorded("begin", r), ~Recorded("finish", r)
  PROVE  TableInv' /\ r \in Pending'
<1>1. r \in Pending'
  BY RequestRow, PendingRecorded
<1>2. QED BY <1>1, AppendedTable

\* A write of a call that did not succeed holds the object and lets the call fail.
LEMMA FailedWrite ==
  ASSUME IInv, NEW r \in Requests, NEW p \in Processes, call[r].process = p,
         journal[p].state \in {"open", "closed"}, gateway[p].lock \in {r, NoRequest},
         gateway' \in [Processes -> Gateways], gateway'[p].lock = r,
         \A q \in Processes \ {p} : gateway'[q] = gateway[q],
         NEW row \in Rows, NEW o \in Outcomes, o # "ok", Write(p, row, o),
         row.kind \in {"begin", "policy", "intent", "finish"}, row.request = r,
         NEW j \in Journals, j.state = journal[p].state, j.held,
         journal' = [journal EXCEPT ![p] = j], owner' = owner,
         Step(r, Past(r, "failing")), UNCHANGED <<now, history>>,
         TableInv',
         row.kind = "finish" /\ log' # log /\ r \in dispatched => r \in confirmed \/ HeldByRows'
  PROVE  IInv'
<1>1. /\ TypeOK /\ TableInv /\ MemoryInv(p) /\ CallInv(r)
      /\ UNCHANGED <<dispatched, confirmed>>
  BY DEF IInv, history
<1>2. /\ Len(log)' \in 1..MaxEvents /\ \A i \in DOMAIN log' : log'[i] \in Rows
      /\ \/ log' = log
         \/ log' = Append(log, row) /\ Len(log) < MaxEvents /\ journal[p].state = "open"
  BY <1>1, WriteTypes
<1>3. owner = p \/ log' = log
  BY <1>1, <1>2 DEF MemoryInv
<1>4. /\ Past(r, "failing") \in Calls /\ Past(r, "failing").at = "failing"
      /\ Past(r, "failing").process = p
  BY <1>1, CallFields DEF Points
<1>5. call'[r] = Past(r, "failing") /\ \A s \in Requests \ {r} : call'[s] = call[s]
  BY <1>1 DEF TypeOK, Step
<1>6. journal'[p] = j /\ \A q \in Processes \ {p} : journal'[q] = journal[q]
  BY <1>1 DEF TypeOK
<1>7. TypeOK'
  BY <1>1, <1>2, <1>4 DEF TypeOK, Step
<1>8. /\ HeldByRows => HeldByRows'
      /\ \A k \in {"begin", "intent", "finish"} :
            /\ Recorded(k, r) => Recorded(k, r)'
            /\ Recorded(k, r)' => Recorded(k, r) \/ (row.kind = k /\ log' # log)
            /\ \A s \in Requests \ {r} : Recorded(k, s)' <=> Recorded(k, s)
  <2>1. CASE log' = log
    BY <2>1, SameTable
  <2>2. CASE log' = Append(log, row) /\ log' # log
    BY <1>1, <2>2, RequestRow
  <2> QED BY <1>2, <2>1, <2>2
<1>9. MemoryInv(p)'
  BY <1>1, <1>6 DEF MemoryInv
<1>10. CallInv(r)'
  <2>1. r \in dispatched' => Recorded("intent", r)'
    BY <1>1, <1>8 DEF CallInv
  <2>2. Recorded("finish", r)' /\ r \in dispatched' => r \in confirmed' \/ HeldByRows'
    BY <1>1, <1>8 DEF CallInv
  <2> QED BY <1>4, <1>5, <1>6, <2>1, <2>2 DEF CallInv, Running, Active, Unyielding
<1> QED BY <1>1, <1>3, <1>5, <1>6, <1>7, <1>8, <1>9, <1>10, Frame
\* A call that is admitted takes the lock, and its begin row makes its request active.
LEMMA BeginStep ==
  ASSUME IInv, NEW r \in Requests, NEW p \in Processes, NEW o \in Outcomes, Begin(r, p, o)
  PROVE  IInv'
<1> DEFINE row == Row("begin", p, r)
           a == Appended(journal[p], o)
           j == IF o = "ok" THEN [a EXCEPT !.active = r] ELSE a
           x == [threshold |-> gateway[p].threshold, denials |-> journal[p].denials]
           c == [Moved(r, "begun") EXCEPT !.context = x]
<1>1. /\ call[r].at = "waiting" /\ call[r].process = p /\ gateway[p].lock = NoRequest
      /\ journal[p].state = "open" /\ ~journal[p].held /\ journal[p].active = NoRequest
      /\ gateway' = [gateway EXCEPT ![p].lock = r, ![p].denials = journal[p].denials]
      /\ Write(p, row, o) /\ journal' = [journal EXCEPT ![p] = j]
      /\ UNCHANGED <<owner, now, history>>
      /\ Step(r, After(r, o, c))
  BY DEF Begin, At, Admits, JournalBegin, SetJournal
<1>2. /\ TypeOK /\ TableInv /\ MemoryInv(p) /\ CallInv(r)
      /\ journal[p] \in Journals /\ gateway[p] \in Gateways
      /\ UNCHANGED <<dispatched, confirmed>>
  BY <1>1 DEF IInv, TypeOK, history
<1>3. /\ row \in Rows /\ row.kind = "begin" /\ row.request = r
  BY RowTypes DEF Kinds
<1> HIDE DEF row
<1>4. /\ gateway' \in [Processes -> Gateways] /\ gateway'[p].lock = r
      /\ gateway'[p].denials = journal[p].denials
      /\ \A q \in Processes \ {p} : gateway'[q] = gateway[q]
  BY <1>1, <1>2 DEF TypeOK, Gateways, Journals
<1>5. /\ Len(log)' \in 1..MaxEvents /\ \A i \in DOMAIN log' : log'[i] \in Rows
      /\ \/ o = "lost" /\ log' = log
         \/ o # "lost" /\ log' = Append(log, row) /\ Len(log) < MaxEvents
  BY <1>1, <1>2, <1>3, WriteTypes
<1>6. ~Recorded("begin", r) /\ ~Recorded("finish", r) /\ ~Recorded("intent", r)
  BY <1>1, <1>2 DEF CallInv, TableInv
<1>7. TableInv'
  BY <1>2, <1>3, <1>5, <1>6, SameTable, PendingRow
<1>8. /\ a \in Journals /\ a.state = "open" /\ a.denials = journal[p].denials
      /\ a.held = (o # "ok")
      /\ o = "ok" => a.sequence = journal[p].sequence + 1
  BY <1>1, <1>2, AppendedFields
<1> HIDE DEF a
<1>9. CASE o # "ok"
  <2>1. j = a /\ Step(r, Past(r, "failing"))
    BY <1>1, <1>9 DEF After
  <2>2. /\ j \in Journals /\ j.state = journal[p].state /\ j.held
        /\ journal[p].state \in {"open", "closed"} /\ gateway[p].lock \in {r, NoRequest}
    BY <1>1, <1>8, <1>9, <2>1
  <2>3. row.kind \in {"begin", "policy", "intent", "finish"} /\ row.kind # "finish"
    BY <1>3
  <2>4. /\ call[r].process = p /\ Write(p, row, o) /\ journal' = [journal EXCEPT ![p] = j]
        /\ owner' = owner /\ UNCHANGED <<now, history>>
    BY <1>1
  <2> HIDE DEF j
  <2> QED BY <1>3, <1>4, <1>7, <1>9, <2>1, <2>2, <2>3, <2>4, FailedWrite
<1>10. CASE o = "ok"
  <2>1. /\ j \in Journals /\ j.state = "open" /\ j.active = r /\ ~j.held
        /\ j.denials = journal[p].denials /\ j.sequence = journal[p].sequence + 1
    <3>1. j = [a EXCEPT !.active = r]
      BY <1>10
    <3> HIDE DEF j
    <3>2. /\ j \in Journals /\ j.active = r /\ j.state = a.state /\ j.held = a.held
          /\ j.denials = a.denials /\ j.sequence = a.sequence
      BY <1>8, <3>1 DEF Journals
    <3> QED BY <1>8, <1>10, <3>2
  <2> HIDE DEF j
  <2>2. /\ c \in Calls /\ c.at = "begun" /\ c.process = p /\ ~c.bound
    <3>1. x \in PolicyContexts
      BY <1>2 DEF PolicyContexts, Gateways, Journals
    <3> HIDE DEF x
    <3>2. \A m \in Calls : LET d == [m EXCEPT !.context = x]
                           IN  /\ d \in Calls /\ d.at = m.at /\ d.process = m.process
                               /\ d.bound = m.bound
      BY <3>1 DEF Calls
    <3>3. /\ Moved(r, "begun") \in Calls /\ Moved(r, "begun").at = "begun"
          /\ Moved(r, "begun").process = p /\ ~Moved(r, "begun").bound
      BY <1>1, <1>2, MovedFields DEF Points, CallInv
    <3> QED BY <3>2, <3>3
  <2> HIDE DEF c
  <2>3. call'[r] = c /\ \A s \in Requests \ {r} : call'[s] = call[s]
    BY <1>1, <1>2, <1>10 DEF TypeOK, Step, After
  <2>4. journal'[p] = j /\ \A q \in Processes \ {p} : journal'[q] = journal[q]
    BY <1>1, <1>2 DEF TypeOK
  <2>5. TypeOK'
    BY <1>1, <1>2, <1>4, <1>5, <1>10, <2>1, <2>2 DEF TypeOK, Step, After
  <2>6. log' = Append(log, row)
    BY <1>5, <1>10
  <2>7. /\ Len(log') = Len(log) + 1
        /\ Recorded("begin", r)' /\ ~Recorded("finish", r)' /\ ~Recorded("intent", r)'
        /\ \A k \in {"begin", "intent", "finish"} : \A s \in Requests \ {r} :
              Recorded(k, s)' <=> Recorded(k, s)
        /\ HeldByRows' <=> HeldByRows
        /\ Pending' = Pending \cup {r}
    BY <1>2, <1>3, <1>6, <2>6, RequestRow
  <2>8. ReplayedDenials' = ReplayedDenials /\ Trips' = Trips /\ Trips \in Nat
    BY <1>2, <1>3, <2>6, AppendedDenials, AppendedTrips DEF TableInv
  <2>9. /\ owner = p /\ journal[p].sequence = Len(log) /\ journal[p].denials = ReplayedDenials
        /\ Pending = {} /\ ~HeldByRows /\ Trips = ReplayedDenials
    BY <1>1, <1>2 DEF MemoryInv, TableInv
  <2>10. MemoryInv(p)'
    BY <1>1, <1>4, <2>1, <2>4, <2>7, <2>8, <2>9, StoreAssumption DEF MemoryInv
  <2>11. CallInv(r)'
    BY <1>2, <1>4, <1>6, <2>1, <2>2, <2>3, <2>4, <2>7 DEF CallInv, Running, Active, Unyielding, Points
  <2> QED BY <1>1, <1>2, <1>4, <1>7, <2>3, <2>4, <2>5, <2>7, <2>9, <2>10, <2>11, Frame
<1> QED BY <1>9, <1>10
\* The policy row of an active request; a tripwire denial is counted on both sides.
LEMMA RecordPolicyStep ==
  ASSUME IInv, NEW r \in Requests, NEW p \in Processes, NEW o \in Outcomes,
         RecordPolicy(r, p, o)
  PROVE  IInv'
<1> DEFINE trips == call[r].decision = "DENY" /\ call[r].topic = "tripwire"
           row == [Row("policy", p, r) EXCEPT !.decision = call[r].decision, !.tripwire = trips]
           j == Appended(journal[p], o)
           c == IF call[r].bound THEN Moved(r, "permitted") ELSE Past(r, "settled")
<1>1. /\ call[r].at = "assessed" /\ call[r].process = p
      /\ gateway' = (IF o = "ok" /\ trips THEN [gateway EXCEPT ![p].denials = @ + 1] ELSE gateway)
      /\ Write(p, row, o) /\ journal' = [journal EXCEPT ![p] = j]
      /\ UNCHANGED <<owner, now, history>>
      /\ Step(r, After(r, o, c))
  BY DEF RecordPolicy, At, JournalPolicy, SetJournal
<1>2. /\ CallInv(r) /\ MemoryInv(p) /\ TypeOK /\ TableInv
      /\ gateway[p].lock = r /\ journal[p].state \in {"open", "closed"}
      /\ journal[p] \in Journals /\ call[r] \in Calls
  BY <1>1, RunningCall DEF Running, Points
<1>3. UNCHANGED <<dispatched, confirmed>> /\ gateway[p] \in Gateways
  BY <1>1, <1>2 DEF history, TypeOK
<1>4. /\ row \in Rows /\ row.kind = "policy" /\ row.request = r /\ ~row.hold
      /\ row.tripwire = trips
  <2>1. /\ Row("policy", p, r) \in Rows /\ Row("policy", p, r).kind = "policy"
        /\ Row("policy", p, r).request = r /\ ~Row("policy", p, r).hold
    BY RowTypes DEF Kinds
  <2>2. /\ call[r].decision \in {"NONE", "PERMIT", "DENY", "REVIEW_REQUIRED"}
        /\ trips \in BOOLEAN
    BY <1>2 DEF Calls, P!Decisions
  <2> HIDE DEF trips
  <2>3. \A d \in {"NONE", "PERMIT", "DENY", "REVIEW_REQUIRED"} : \A q \in Rows :
           LET w == [q EXCEPT !.decision = d, !.tripwire = trips]
           IN  /\ w \in Rows /\ w.kind = q.kind /\ w.request = q.request /\ w.hold = q.hold
               /\ w.tripwire = trips
    BY <2>2 DEF Rows
  <2> QED BY <2>1, <2>2, <2>3
<1> HIDE DEF row, trips
<1>5. /\ gateway' \in [Processes -> Gateways] /\ gateway'[p].lock = r
      /\ gateway'[p].denials = IF o = "ok" /\ trips THEN gateway[p].denials + 1
                               ELSE gateway[p].denials
      /\ \A q \in Processes \ {p} : gateway'[q] = gateway[q]
  <2>1. CASE o = "ok" /\ trips
    <3>1. gateway' = [gateway EXCEPT ![p].denials = @ + 1]
      BY <1>1, <2>1
    <3>2. [gateway[p] EXCEPT !.denials = @ + 1] \in Gateways
      BY <1>3 DEF Gateways
    <3>3. gateway' = [gateway EXCEPT ![p] = [gateway[p] EXCEPT !.denials = @ + 1]]
      BY <1>2, <3>1 DEF TypeOK
    <3> QED BY <1>2, <2>1, <3>2, <3>3 DEF TypeOK, Gateways
  <2>2. CASE ~(o = "ok" /\ trips)
    BY <1>1, <1>2, <2>2 DEF TypeOK
  <2> QED BY <2>1, <2>2
<1>6. /\ Len(log)' \in 1..MaxEvents /\ \A i \in DOMAIN log' : log'[i] \in Rows
      /\ \/ o = "lost" /\ log' = log
         \/ /\ o # "lost" /\ log' = Append(log, row) /\ Len(log) < MaxEvents
            /\ journal[p].state \in {"booting", "open"}
  BY <1>1, <1>2, <1>4, WriteTypes
<1>7. Recorded("begin", r) /\ ~Recorded("finish", r) /\ ~Recorded("intent", r)
  BY <1>1, <1>2 DEF CallInv, Active, Running, Points
<1>8. TableInv'
  BY <1>2, <1>4, <1>6, <1>7, SameTable, PendingRow
<1>9. /\ j \in Journals /\ j.state = journal[p].state /\ j.denials = journal[p].denials
      /\ j.active = journal[p].active
      /\ j.held = (journal[p].held \/ o # "ok")
      /\ o = "ok" => j.sequence = journal[p].sequence + 1
  BY <1>2, AppendedFields
<1> HIDE DEF j
<1>10. CASE o # "ok"
  <2>1. Step(r, Past(r, "failing"))
    BY <1>1, <1>10 DEF After
  <2> QED BY <1>1, <1>2, <1>4, <1>5, <1>8, <1>9, <1>10, <2>1, FailedWrite
<1>11. CASE o = "ok"
  <2>1. /\ log' = Append(log, row) /\ Len(log) < MaxEvents /\ journal[p].state = "open"
    BY <1>2, <1>6, <1>11
  <2>2. /\ ~journal[p].held /\ journal[p].active = r
    BY <1>1, <1>2, <2>1 DEF CallInv, Active, Running, Points
  <2>3. /\ c \in Calls /\ c.process = p
        /\ \/ c.at = "settled"
           \/ c.at = "permitted" /\ c.context.denials < 2
    <3>1. CASE call[r].bound
      BY <1>1, <1>2, <3>1, MovedFields DEF Points, CallInv
    <3>2. CASE ~call[r].bound
      BY <1>1, <1>2, <3>2, CallFields DEF Points
    <3> QED BY <3>1, <3>2
  <2> HIDE DEF c
  <2>4. call'[r] = c /\ \A s \in Requests \ {r} : call'[s] = call[s]
    BY <1>1, <1>2, <1>11 DEF TypeOK, Step, After
  <2>5. journal'[p] = j /\ \A q \in Processes \ {p} : journal'[q] = journal[q]
    BY <1>1, <1>2 DEF TypeOK
  <2>6. TypeOK'
    BY <1>1, <1>2, <1>3, <1>5, <1>6, <1>9, <1>11, <2>3 DEF TypeOK, Step, After
  <2>7. /\ Len(log') = Len(log) + 1
        /\ Recorded("begin", r)' /\ ~Recorded("finish", r)' /\ ~Recorded("intent", r)'
        /\ \A k \in {"begin", "intent", "finish"} : \A s \in Requests \ {r} :
              Recorded(k, s)' <=> Recorded(k, s)
        /\ HeldByRows' <=> HeldByRows
        /\ Pending' = Pending
    BY <1>2, <1>4, <1>7, <2>1, RequestRow
  <2>8. /\ ReplayedDenials' = ReplayedDenials
        /\ Trips' = (IF trips THEN Trips + 1 ELSE Trips) /\ Trips \in Nat
    BY <1>2, <1>4, <2>1, AppendedDenials, AppendedTrips DEF TableInv
  <2>9. /\ owner = p /\ journal[p].sequence = Len(log) /\ journal[p].denials = ReplayedDenials
        /\ Pending = {r} \ {NoRequest} /\ ~HeldByRows
        /\ Trips = gateway[p].denials /\ ReplayedDenials <= Trips
    BY <1>2, <2>1, <2>2, StoreAssumption DEF MemoryInv
  <2>10. ReplayedDenials \in Nat
    BY <1>2, DenialsReplayed DEF TableInv
  <2>11. MemoryInv(p)'
    BY <1>1, <1>5, <1>9, <1>11, <2>1, <2>2, <2>5, <2>7, <2>8, <2>9, <2>10 DEF MemoryInv
  <2>12. CallInv(r)'
    BY <1>2, <1>3, <1>5, <1>7, <1>9, <1>11, <2>1, <2>2, <2>3, <2>4, <2>5, <2>7
       DEF CallInv, Running, Active, Unyielding, Points
  <2> QED BY <1>1, <1>2, <1>3, <1>5, <1>8, <2>4, <2>5, <2>6, <2>7, <2>9, <2>11, <2>12, Frame
<1> QED BY <1>10, <1>11
\* The intent row of an active request.
LEMMA RecordIntentStep ==
  ASSUME IInv, NEW r \in Requests, NEW p \in Processes, NEW o \in Outcomes,
         RecordIntent(r, p, o)
  PROVE  IInv'
<1> DEFINE row == Row("intent", p, r)
           j == Appended(journal[p], o)
           c == Moved(r, "intended")
<1>1. /\ call[r].at = "permitted" /\ call[r].process = p
      /\ Write(p, row, o) /\ journal' = [journal EXCEPT ![p] = j]
      /\ UNCHANGED <<owner, now, gateway, history>>
      /\ Step(r, After(r, o, c))
  BY DEF RecordIntent, At, JournalIntent, SetJournal
<1>2. /\ CallInv(r) /\ MemoryInv(p) /\ TypeOK /\ TableInv
      /\ gateway[p].lock = r /\ journal[p].state \in {"open", "closed"}
      /\ journal[p] \in Journals /\ call[r] \in Calls
  BY <1>1, RunningCall DEF Running, Points
<1>3. UNCHANGED <<dispatched, confirmed>>
  BY <1>1 DEF history
<1>4. row \in Rows /\ row.kind = "intent" /\ row.request = r /\ ~row.tripwire
  BY RowTypes DEF Kinds
<1> HIDE DEF row
<1>5. /\ gateway' \in [Processes -> Gateways] /\ gateway'[p].lock = r
      /\ \A q \in Processes : gateway'[q] = gateway[q]
  BY <1>1, <1>2 DEF TypeOK
<1>6. /\ Len(log)' \in 1..MaxEvents /\ \A i \in DOMAIN log' : log'[i] \in Rows
      /\ \/ o = "lost" /\ log' = log
         \/ /\ o # "lost" /\ log' = Append(log, row) /\ Len(log) < MaxEvents
            /\ journal[p].state \in {"booting", "open"}
  BY <1>1, <1>2, <1>4, WriteTypes
<1>7. /\ Recorded("begin", r) /\ ~Recorded("finish", r) /\ ~Recorded("intent", r)
      /\ r \notin dispatched
  BY <1>1, <1>2 DEF CallInv, Active, Running, Points
<1>8. TableInv'
  BY <1>2, <1>4, <1>6, <1>7, SameTable, PendingRow
<1>9. /\ j \in Journals /\ j.state = journal[p].state /\ j.denials = journal[p].denials
      /\ j.active = journal[p].active
      /\ j.held = (journal[p].held \/ o # "ok")
      /\ o = "ok" => j.sequence = journal[p].sequence + 1
  BY <1>2, AppendedFields
<1> HIDE DEF j
<1>10. CASE o # "ok"
  <2>1. Step(r, Past(r, "failing"))
    BY <1>1, <1>10 DEF After
  <2> QED BY <1>1, <1>2, <1>4, <1>5, <1>8, <1>9, <1>10, <2>1, FailedWrite
<1>11. CASE o = "ok"
  <2>1. /\ log' = Append(log, row) /\ Len(log) < MaxEvents /\ journal[p].state = "open"
    BY <1>2, <1>6, <1>11
  <2>2. /\ ~journal[p].held /\ journal[p].active = r
    BY <1>1, <1>2, <2>1 DEF CallInv, Active, Running, Points
  <2>3. c \in Calls /\ c.process = p /\ c.at = "intended" /\ c.context.denials < 2
    BY <1>1, <1>2, MovedFields DEF Points, CallInv
  <2> HIDE DEF c
  <2>4. call'[r] = c /\ \A s \in Requests \ {r} : call'[s] = call[s]
    BY <1>1, <1>2, <1>11 DEF TypeOK, Step, After
  <2>5. journal'[p] = j /\ \A q \in Processes \ {p} : journal'[q] = journal[q]
    BY <1>1, <1>2 DEF TypeOK
  <2>6. TypeOK'
    BY <1>1, <1>2, <1>3, <1>5, <1>6, <1>9, <1>11, <2>3 DEF TypeOK, Step, After
  <2>7. /\ Len(log') = Len(log) + 1
        /\ Recorded("begin", r)' /\ ~Recorded("finish", r)' /\ Recorded("intent", r)'
        /\ \A k \in {"begin", "intent", "finish"} : \A s \in Requests \ {r} :
              Recorded(k, s)' <=> Recorded(k, s)
        /\ HeldByRows' <=> HeldByRows
        /\ Pending' = Pending
    BY <1>2, <1>4, <1>7, <2>1, RequestRow
  <2>8. ReplayedDenials' = ReplayedDenials /\ Trips' = Trips
    BY <1>2, <1>4, <2>1, AppendedDenials, AppendedTrips DEF TableInv
  <2>9. /\ owner = p /\ journal[p].sequence = Len(log) /\ journal[p].denials = ReplayedDenials
        /\ Pending = {r} \ {NoRequest} /\ ~HeldByRows
        /\ Trips = gateway[p].denials /\ ReplayedDenials <= Trips
    BY <1>2, <2>1, <2>2, StoreAssumption DEF MemoryInv
  <2>10. MemoryInv(p)'
    BY <1>1, <1>5, <1>9, <1>11, <2>1, <2>2, <2>5, <2>7, <2>8, <2>9 DEF MemoryInv
  <2>11. CallInv(r)'
    BY <1>2, <1>3, <1>5, <1>7, <1>9, <1>11, <2>1, <2>2, <2>3, <2>4, <2>5, <2>7
       DEF CallInv, Running, Active, Unyielding, Points
  <2> QED BY <1>1, <1>2, <1>3, <1>5, <1>8, <2>4, <2>5, <2>6, <2>7, <2>9, <2>10, <2>11, Frame
<1> QED BY <1>10, <1>11

\* The finish row repeats the denials on record, and holds what is not confirmed.
LEMMA RecordFinishStep ==
  ASSUME IInv, NEW r \in Requests, NEW p \in Processes, NEW o \in Outcomes,
         RecordFinish(r, p, o)
  PROVE  IInv'
<1> DEFINE d == gateway[p].denials
           u == call[r].unknown
           row == [Row("finish", p, r) EXCEPT !.denials = d, !.hold = u]
           a == Appended(journal[p], o)
           j == IF o = "ok" THEN [a EXCEPT !.denials = d, !.held = @ \/ u, !.active = NoRequest]
                ELSE a
           c == Past(r, "finished")
<1>1. /\ call[r].at = "settled" /\ call[r].process = p
      /\ Write(p, row, o) /\ journal' = [journal EXCEPT ![p] = j]
      /\ UNCHANGED <<owner, now, gateway, history>>
      /\ Step(r, After(r, o, c))
  BY DEF RecordFinish, At, JournalFinish, SetJournal
<1>2. /\ CallInv(r) /\ MemoryInv(p) /\ TypeOK /\ TableInv
      /\ gateway[p].lock = r /\ journal[p].state \in {"open", "closed"}
      /\ journal[p] \in Journals /\ call[r] \in Calls
  BY <1>1, RunningCall DEF Running, Points
<1>3. /\ UNCHANGED <<dispatched, confirmed>> /\ d \in Nat /\ u \in BOOLEAN
  BY <1>1, <1>2 DEF history, TypeOK, Gateways, Calls
<1>4. /\ row \in Rows /\ row.kind = "finish" /\ row.request = r /\ row.hold = u
      /\ row.denials = d
  <2>1. /\ Row("finish", p, r) \in Rows /\ Row("finish", p, r).kind = "finish"
        /\ Row("finish", p, r).request = r
    BY RowTypes DEF Kinds
  <2> HIDE DEF d, u
  <2>2. \A q \in Rows : LET w == [q EXCEPT !.denials = d, !.hold = u]
                        IN  /\ w \in Rows /\ w.kind = q.kind /\ w.request = q.request
                            /\ w.hold = u /\ w.denials = d
    BY <1>3 DEF Rows
  <2> QED BY <2>1, <2>2
<1> HIDE DEF row
<1>5. /\ gateway' \in [Processes -> Gateways] /\ gateway'[p].lock = r
      /\ \A q \in Processes : gateway'[q] = gateway[q]
  BY <1>1, <1>2 DEF TypeOK
<1>6. /\ Len(log)' \in 1..MaxEvents /\ \A i \in DOMAIN log' : log'[i] \in Rows
      /\ \/ o = "lost" /\ log' = log
         \/ /\ o # "lost" /\ log' = Append(log, row) /\ Len(log) < MaxEvents
            /\ journal[p].state \in {"booting", "open"}
  BY <1>1, <1>2, <1>4, WriteTypes
<1>7. /\ Recorded("begin", r) /\ ~Recorded("finish", r)
      /\ ~u => (r \in dispatched => r \in confirmed)
      /\ r \in dispatched => Recorded("intent", r)
  BY <1>1, <1>2 DEF CallInv, Active, Running, Points
<1>8. ASSUME log' = Append(log, row), Len(log) < MaxEvents, journal[p].state = "open"
      PROVE  /\ TableInv' /\ Len(log') = Len(log) + 1 /\ owner = p
             /\ Pending' = {} /\ ReplayedDenials' = d
             /\ HeldByRows' = u
             /\ Recorded("begin", r)' /\ Recorded("finish", r)'
             /\ Recorded("intent", r)' <=> Recorded("intent", r)
             /\ \A k \in {"begin", "intent", "finish"} : \A s \in Requests \ {r} :
                   Recorded(k, s)' <=> Recorded(k, s)
             /\ ~journal[p].held /\ journal[p].sequence = Len(log)
  <2>1. /\ ~journal[p].held /\ journal[p].active = r
    BY <1>1, <1>2, <1>8 DEF CallInv, Active, Running, Points
  <2>2. /\ owner = p /\ journal[p].sequence = Len(log)
        /\ Pending = {r} \ {NoRequest} /\ ~HeldByRows
        /\ Trips = d /\ ReplayedDenials <= d
    BY <1>2, <1>8, <2>1, StoreAssumption DEF MemoryInv
  <2>3. /\ Len(log') = Len(log) + 1
        /\ Recorded("begin", r)' /\ Recorded("finish", r)'
        /\ Recorded("intent", r)' <=> Recorded("intent", r)
        /\ \A k \in {"begin", "intent", "finish"} : \A s \in Requests \ {r} :
              Recorded(k, s)' <=> Recorded(k, s)
        /\ HeldByRows' <=> HeldByRows \/ u
        /\ Pending' = Pending \ {r}
    BY <1>2, <1>3, <1>4, <1>7, <1>8, RequestRow
  <2>4. ReplayedDenials' = d /\ Trips' = Trips
    BY <1>2, <1>4, <1>8, <2>2, AppendedDenials, AppendedTrips DEF TableInv
  <2>5. TableInv'
    BY <1>2, <1>4, <1>8, <2>2, <2>4, AppendedTable
  <2>6. HeldByRows' = u
    BY <1>3, <2>2, <2>3 DEF HeldByRows
  <2> QED BY <2>1, <2>2, <2>3, <2>4, <2>5, <2>6
<1>9. TableInv' /\ (log' # log /\ r \in dispatched => r \in confirmed \/ HeldByRows')
  BY <1>2, <1>6, <1>7, <1>8, SameTable
<1>10. /\ a \in Journals /\ a.state = journal[p].state
       /\ a.held = (journal[p].held \/ o # "ok")
       /\ o = "ok" => a.sequence = journal[p].sequence + 1
  BY <1>2, AppendedFields
<1> HIDE DEF a
<1>11. CASE o # "ok"
  <2>1. Step(r, Past(r, "failing")) /\ j = a
    BY <1>1, <1>11 DEF After
  <2> QED BY <1>1, <1>2, <1>4, <1>5, <1>9, <1>10, <1>11, <2>1, FailedWrite
<1>12. CASE o = "ok"
  <2>1. /\ log' = Append(log, row) /\ Len(log) < MaxEvents /\ journal[p].state = "open"
    BY <1>2, <1>6, <1>12
  <2>2. /\ j \in Journals /\ j.state = "open" /\ j.held = u /\ j.active = NoRequest
        /\ j.denials = d /\ j.sequence = Len(log) + 1
    <3>1. /\ a.state = "open" /\ a.held = FALSE /\ a.sequence = Len(log) + 1
      BY <1>8, <1>10, <1>12, <2>1 DEF Journals
    <3> HIDE DEF d, u
    <3>2. j = [a EXCEPT !.denials = d, !.held = u, !.active = NoRequest]
      BY <1>3, <1>10, <1>12, <3>1 DEF Journals
    <3> QED BY <1>3, <1>10, <3>1, <3>2 DEF Journals
  <2> HIDE DEF j
  <2>3. c \in Calls /\ c.process = p /\ c.at = "finished"
    BY <1>1, <1>2, CallFields DEF Points
  <2> HIDE DEF c
  <2>4. call'[r] = c /\ \A s \in Requests \ {r} : call'[s] = call[s]
    BY <1>1, <1>2, <1>12 DEF TypeOK, Step, After
  <2>5. journal'[p] = j /\ \A q \in Processes \ {p} : journal'[q] = journal[q]
    BY <1>1, <1>2 DEF TypeOK
  <2>6. TypeOK'
    BY <1>1, <1>2, <1>3, <1>5, <1>6, <1>12, <2>2, <2>3 DEF TypeOK, Step, After
  <2>7. MemoryInv(p)'
    BY <1>1, <1>8, <2>1, <2>2, <2>5 DEF MemoryInv
  <2>8. CallInv(r)'
    BY <1>3, <1>5, <1>7, <1>8, <2>1, <2>2, <2>3, <2>4, <2>5
       DEF CallInv, Running, Active, Unyielding, Points
  <2>9. ~HeldByRows
    BY <1>1, <1>2, <1>8, <2>1 DEF MemoryInv
  <2> QED BY <1>1, <1>2, <1>3, <1>5, <1>8, <2>1, <2>4, <2>5, <2>6, <2>7, <2>8, <2>9, Frame
<1> QED BY <1>11, <1>12

\* failed(): the object holds, whether its row is written or not.
LEMMA RecordHoldStep ==
  ASSUME IInv, NEW r \in Requests, NEW p \in Processes, NEW o \in Outcomes,
         RecordHold(r, p, o)
  PROVE  IInv'
<1> DEFINE row == Row("hold", p, journal[p].active)
           a == Appended(journal[p], o)
           j == [a EXCEPT !.held = TRUE]
           c == Blank("ended")
<1>1. /\ call[r].at = "failing" /\ call[r].process = p
      /\ Write(p, row, o) /\ journal' = [journal EXCEPT ![p] = j]
      /\ gateway' = [gateway EXCEPT ![p].lock = NoRequest]
      /\ UNCHANGED <<owner, now, history>>
      /\ Step(r, c)
  BY DEF RecordHold, At, JournalFailed, SetJournal, Unlocked
<1>2. /\ CallInv(r) /\ MemoryInv(p) /\ TypeOK /\ TableInv
      /\ gateway[p].lock = r /\ journal[p].state \in {"open", "closed"}
      /\ journal[p] \in Journals
  BY <1>1, RunningCall DEF Running, Points
<1>3. UNCHANGED <<dispatched, confirmed>>
  BY <1>1 DEF history
<1>4. row \in Rows /\ row.kind = "hold"
  BY <1>2, RowTypes DEF Kinds, Journals
<1> HIDE DEF row
<1>5. /\ gateway' \in [Processes -> Gateways]
      /\ \A q \in Processes \ {p} : gateway'[q] = gateway[q]
  BY <1>1, <1>2 DEF TypeOK, Gateways
<1>6. /\ Len(log)' \in 1..MaxEvents /\ \A i \in DOMAIN log' : log'[i] \in Rows
      /\ \/ log' = log
         \/ /\ log' = Append(log, row) /\ Len(log) < MaxEvents
            /\ journal[p].state \in {"booting", "open"}
  BY <1>1, <1>2, <1>4, WriteTypes
<1>7. /\ TableInv' /\ (HeldByRows => HeldByRows')
      /\ \A k \in {"begin", "intent", "finish"} : \A s \in Requests :
            Recorded(k, s)' <=> Recorded(k, s)
  <2>1. CASE log' = log
    BY <1>2, <2>1, SameTable
  <2>2. CASE log' = Append(log, row) /\ Len(log) < MaxEvents
    <3>1. HeldByRows' /\ TableInv'
      BY <1>2, <1>4, <2>2, AppendedHold, AppendedTable DEF TableInv
    <3>2. \A k \in {"begin", "intent", "finish"} : \A s \in Requests :
             Recorded(k, s)' <=> Recorded(k, s)
      BY <1>2, <1>4, <2>2, AppendedRecorded DEF TableInv
    <3> QED BY <3>1, <3>2
  <2> QED BY <1>6, <2>1, <2>2
<1>8. j \in Journals /\ j.state = journal[p].state /\ j.held
  <2>1. a \in Journals /\ a.state = journal[p].state
    BY <1>2, AppendedFields
  <2> QED BY <2>1 DEF Journals
<1> HIDE DEF j
<1>9. c \in Calls /\ c.at = "ended"
  BY <1>2, CallFields DEF Points
<1> HIDE DEF c
<1>10. call'[r] = c /\ \A s \in Requests \ {r} : call'[s] = call[s]
  BY <1>1, <1>2 DEF TypeOK, Step
<1>11. journal'[p] = j /\ \A q \in Processes \ {p} : journal'[q] = journal[q]
  BY <1>1, <1>2 DEF TypeOK
<1>12. TypeOK'
  BY <1>1, <1>2, <1>3, <1>5, <1>6, <1>8, <1>9 DEF TypeOK, Step
<1>13. MemoryInv(p)'
  BY <1>1, <1>2, <1>8, <1>11 DEF MemoryInv
<1>14. CallInv(r)'
  BY <1>2, <1>3, <1>7, <1>9, <1>10 DEF CallInv, Running, Active, Unyielding
<1>15. owner = p \/ log' = log
  BY <1>2, <1>6 DEF MemoryInv
<1> QED BY <1>1, <1>2, <1>3, <1>5, <1>7, <1>10, <1>11, <1>12, <1>13, <1>14, <1>15, Frame
-------------------------------------------------------------------------------
LEMMA InitIInv == Init => IInv
<1> SUFFICES ASSUME Init PROVE IInv
  OBVIOUS
<1> DEFINE row == Row("provision", NoProcess, NoRequest)
<1>1. row \in Rows /\ row.kind = "provision"
  BY RowTypes DEF Row, Rows, Kinds
<1>2. log = <<row>>
  BY DEF Init, JournalInit
<1> HIDE DEF row
<1>3. log \in Seq(Rows) /\ Len(log) = 1 /\ log[1] = row /\ DOMAIN log = 1..1
  BY <1>1, <1>2
<1>4. \A k \in Kinds \ {"provision"} : Indices(k) = {}
  BY <1>1, <1>3 DEF Indices
<1>5. /\ \A k \in {"begin", "intent", "finish"} : \A r : ~Recorded(k, r)
      /\ Pending = {} /\ ~HeldByRows /\ FinishedDenials = {0} /\ TripwireRows = {}
  BY <1>4 DEF Recorded, Pending, HeldByRows, FinishedDenials, TripwireRows, Kinds
<1>6. Trips = 0 /\ 0 \in FinishedDenials /\ Top(0)
  BY <1>5, FS_EmptySet DEF Trips, Top
<1>7. ReplayedDenials = 0
  BY <1>3, <1>6, DenialsReplayed
<1>8. TableInv
  BY <1>3, <1>5, <1>6, <1>7, StoreAssumption DEF TableInv
<1>9. Fresh("new") \in Journals /\ Fresh("new").state = "new"
  BY DEF Fresh, Journals
<1>10. [denials |-> 0, threshold |-> AnyThreshold, lock |-> NoRequest] \in Gateways
  BY ClockAssumption DEF Gateways, AnyThreshold
<1>11. NoContext \in PolicyContexts
  BY ClockAssumption DEF NoContext, PolicyContexts, AnyThreshold
<1>12. Blank("idle") \in Calls /\ Blank("idle").at = "idle"
  BY <1>11, ClockAssumption DEF Blank, Calls, Topics, Points
<1>13. TypeOK
  BY <1>1, <1>3, <1>9, <1>10, <1>12, StoreAssumption, ClockAssumption
     DEF Init, JournalInit, TypeOK, Times
<1>14. \A p \in Processes : MemoryInv(p)
  BY <1>9 DEF Init, JournalInit, MemoryInv
<1>15. ASSUME NEW r \in Requests PROVE CallInv(r)
  BY <1>5, <1>12 DEF Init, CallInv, Running, Active, Unyielding
<1> QED BY <1>8, <1>13, <1>14, <1>15 DEF IInv

LEMMA NextIInv == IInv /\ [Next]_vars => IInv'
<1> SUFFICES ASSUME IInv, [Next]_vars PROVE IInv'
  OBVIOUS
<1>1. ASSUME NEW r \in Requests, NEW p \in Processes, NEW topic \in Topics,
             NEW expiry \in 1..MaxTime + 1, Arrive(r, p, topic, expiry)
      PROVE  IInv'
  BY <1>1, ArriveStep
<1>2. ASSUME NEW r \in Requests, NEW p \in Processes, CallStep(r, p)
      PROVE  IInv'
  <2>1. CASE Refuse(r, p)
    BY <2>1, StopStep DEF Refuse
  <2>2. CASE \E o \in Outcomes : Begin(r, p, o)
    BY <2>2, BeginStep
  <2>3. CASE Preflight(r, p)
    BY <2>3, PreflightStep
  <2>4. CASE \E judge \in JudgeAnswers, issued \in BOOLEAN : Answer(r, p, judge, issued)
    BY <2>4, AnswerStep
  <2>5. CASE \E o \in Outcomes : RecordPolicy(r, p, o)
    BY <2>5, RecordPolicyStep
  <2>6. CASE \E o \in Outcomes : RecordIntent(r, p, o)
    BY <2>6, RecordIntentStep
  <2>7. CASE Uncredentialed(r, p)
    BY <2>7, StopStep DEF Uncredentialed, At, Running, Points
  <2>8. CASE Dispatch(r, p)
    BY <2>8, DispatchStep
  <2>9. CASE BindingInvalid(r, p)
    BY <2>9, BindingInvalidStep
  <2>10. CASE \E unknown \in BOOLEAN : AdapterReturns(r, p, unknown)
    BY <2>10, AdapterReturnsStep
  <2>11. CASE \E o \in Outcomes : RecordFinish(r, p, o)
    BY <2>11, RecordFinishStep
  <2>12. CASE Complete(r, p)
    BY <2>12, CompleteStep
  <2>13. CASE \E o \in Outcomes : RecordHold(r, p, o)
    BY <2>13, RecordHoldStep
  <2> QED BY <1>2, <2>1, <2>2, <2>3, <2>4, <2>5, <2>6, <2>7, <2>8, <2>9, <2>10, <2>11,
             <2>12, <2>13 DEF CallStep
<1>3. ASSUME NEW r \in Requests, NEW p \in Processes, Fault(r, p)
      PROVE  IInv'
  BY <1>3, StopStep DEF Fault, Running, Points
<1>4. ASSUME NEW p \in Processes, ProcessStep(p)
      PROVE  IInv'
  <2>1. CASE Start(p)
    BY <2>1, StartStep
  <2>2. CASE \E o \in Outcomes : BootUp(p, o)
    BY <2>2, BootStep
  <2>3. CASE \E o \in Outcomes : Shutdown(p, o)
    BY <2>3, ShutdownStep
  <2>4. CASE Crash(p)
    BY <2>4, CrashStep
  <2>5. CASE \E t \in Thresholds : Reconfigure(p, t)
    BY <2>5, ReconfigureStep
  <2> QED BY <1>4, <2>1, <2>2, <2>3, <2>4, <2>5 DEF ProcessStep
<1>5. CASE Tick
  <2>1. now' \in Times
    BY <1>5, ClockAssumption DEF Tick, IInv, TypeOK, Times
  <2> QED BY <1>5, <2>1, TickStep DEF Tick, journalVars, history
<1>6. CASE UNCHANGED vars
  BY <1>6, TickStep DEF vars, IInv, TypeOK
<1> QED BY <1>1, <1>2, <1>3, <1>4, <1>5, <1>6 DEF Next

LEMMA Invariance == Spec => []IInv
BY InitIInv, NextIInv, PTL DEF Spec

\* Only entering the adapter and its return say anything new of what really happened.
LEMMA HistorySteps ==
  ASSUME [Next]_vars
  PROVE  \/ UNCHANGED history
         \/ \E r \in Requests, p \in Processes :
               \/ Dispatch(r, p)
               \/ \E unknown \in BOOLEAN : AdapterReturns(r, p, unknown)
<1>1. ASSUME NEW r \in Requests, NEW p \in Processes, CallStep(r, p)
      PROVE  \/ UNCHANGED history
             \/ Dispatch(r, p)
             \/ \E unknown \in BOOLEAN : AdapterReturns(r, p, unknown)
  <2>1. CASE \E o \in Outcomes : \/ Begin(r, p, o) \/ RecordPolicy(r, p, o)
                                 \/ RecordIntent(r, p, o) \/ RecordFinish(r, p, o)
                                 \/ RecordHold(r, p, o)
    BY <2>1 DEF Begin, RecordPolicy, RecordIntent, RecordFinish, RecordHold
  <2>2. CASE Preflight(r, p) \/ \E judge \in JudgeAnswers, issued \in BOOLEAN :
                                   Answer(r, p, judge, issued)
    BY <2>2 DEF Preflight, Answer
  <2>3. CASE Refuse(r, p) \/ Uncredentialed(r, p) \/ BindingInvalid(r, p) \/ Complete(r, p)
    BY <2>3 DEF Refuse, Uncredentialed, BindingInvalid, Complete
  <2> QED BY <1>1, <2>1, <2>2, <2>3 DEF CallStep
<1>2. ASSUME NEW p \in Processes, ProcessStep(p) PROVE UNCHANGED history
  BY <1>2 DEF ProcessStep, Start, BootUp, Shutdown, Crash, Reconfigure
<1>3. ASSUME NEW r \in Requests, NEW p \in Processes, NEW topic, NEW expiry,
             Fault(r, p) \/ Arrive(r, p, topic, expiry) \/ Tick \/ UNCHANGED vars
      PROVE  UNCHANGED history
  BY <1>3 DEF Fault, Arrive, Tick, vars, history
<1>4. Tick \/ UNCHANGED vars => UNCHANGED history
  BY DEF Tick, vars, history
<1> QED BY <1>1, <1>2, <1>3, <1>4 DEF Next

\* Every variable has its type.
THEOREM TypeCorrect == Spec => []TypeOK
<1>1. IInv => TypeOK
  BY DEF IInv
<1> QED BY Invariance, <1>1, PTL

\* A journal in service that does not hold remembers what a replay of the table would say.
THEOREM MemoryAgrees == Spec => []MemoryMatchesTable
<1>1. IInv => MemoryMatchesTable
  BY DEF IInv, MemoryInv, MemoryMatchesTable
<1> QED BY Invariance, <1>1, PTL

\* Two tripwire denials on record stop dispatch for good.
THEOREM ContainmentLasts == Spec => DurableContainment
<1>1. ASSUME IInv, [Next]_vars, dispatched' # dispatched
      PROVE  Cardinality(TripwireRows) < 2
  <2>1. PICK r \in Requests, p \in Processes : Dispatch(r, p)
    BY <1>1, HistorySteps DEF history, AdapterReturns
  <2>2. /\ call[r].at = "intended" /\ call[r].process = p
        /\ call[r].context = LiveContext(p)
    BY <2>1 DEF Dispatch, At, Consumable
  <2>3. CallInv(r) /\ MemoryInv(p)
    BY <1>1 DEF IInv
  <2>4. gateway[p].denials < 2 /\ journal[p].state = "open" /\ ~journal[p].held
        /\ journal[p].active = r
    BY <2>2, <2>3 DEF CallInv, LiveContext, Active, Running, Points, Unyielding
  <2> QED BY <2>3, <2>4, StoreAssumption DEF MemoryInv, Trips
<1> QED BY Invariance, <1>1, PTL DEF Spec, DurableContainment

\* The row of a call whose request is active, or is about to be, goes to a table that does
\* not hold and where no other request is pending.
LEMMA ActiveWrites ==
  ASSUME IInv, NEW r \in Requests, NEW p \in Processes, NEW row \in Rows, NEW o \in Outcomes,
         Write(p, row, o), log' # log, call[r].process = p, call[r].at \in Active
  PROVE  /\ log' = Append(log, row) /\ ~HeldByRows /\ Pending = {r}
         /\ Recorded("begin", r) /\ ~Recorded("finish", r)
<1>1. call[r].at \in Running
  BY DEF Active
<1>2. /\ CallInv(r) /\ MemoryInv(p) /\ TypeOK /\ TableInv
      /\ journal[p].state \in {"open", "closed"}
  BY <1>1, RunningCall
<1>3. log' = Append(log, row) /\ journal[p].state = "open"
  BY <1>2, WriteTypes
<1> QED BY <1>2, <1>3, StoreAssumption DEF CallInv, MemoryInv

\* Whatever row is added: only hold rows follow one that holds, an intent is of the one
\* pending request and its first, and what is begun or finished has not been finished.
LEMMA Growth ==
  ASSUME IInv, [Next]_vars, log' # log
  PROVE  \E row \in Rows :
            /\ log' = Append(log, row)
            /\ UNCHANGED history
            /\ row.kind = "hold" \/ ~HeldByRows
            /\ row.kind = "intent" => /\ row.request \in Requests /\ ~HeldByRows
                                      /\ Pending = {row.request}
                                      /\ ~Recorded("intent", row.request)
            /\ row.kind \in {"begin", "finish"} => /\ row.request \in Requests
                                                   /\ ~Recorded("finish", row.request)
<1> DEFINE Good(row) ==
             /\ log' = Append(log, row)
             /\ UNCHANGED history
             /\ row.kind = "hold" \/ ~HeldByRows
             /\ row.kind = "intent" => /\ row.request \in Requests /\ ~HeldByRows
                                       /\ Pending = {row.request}
                                       /\ ~Recorded("intent", row.request)
             /\ row.kind \in {"begin", "finish"} => /\ row.request \in Requests
                                                    /\ ~Recorded("finish", row.request)
<1>0. TypeOK /\ TableInv
  BY DEF IInv
<1>1. ASSUME NEW r \in Requests, NEW p \in Processes, NEW o \in Outcomes,
             Begin(r, p, o)
      PROVE  \E row \in Rows : Good(row)
  <2> DEFINE row == Row("begin", p, r)
  <2>1. /\ row \in Rows /\ row.kind = "begin" /\ row.request = r
        /\ Write(p, row, o) /\ UNCHANGED history
    BY <1>1, RowTypes DEF Begin, JournalBegin, Kinds
  <2> HIDE DEF row
  <2>2. log' = Append(log, row)
    BY <1>0, <2>1, WriteTypes
  <2>3. ~HeldByRows
    BY <1>1 DEF Begin, Admits, IInv, MemoryInv
  <2>4. ~Recorded("finish", r)
    BY <1>1 DEF Begin, At, IInv, CallInv
  <2> QED BY <2>1, <2>2, <2>3, <2>4
<1>2. ASSUME NEW r \in Requests, NEW p \in Processes, NEW o \in Outcomes,
             RecordPolicy(r, p, o)
      PROVE  \E row \in Rows : Good(row)
  <2> DEFINE trips == call[r].decision = "DENY" /\ call[r].topic = "tripwire"
             row == [Row("policy", p, r) EXCEPT !.decision = call[r].decision,
                                                !.tripwire = trips]
  <2>1. /\ Write(p, row, o) /\ UNCHANGED history
        /\ call[r].process = p /\ call[r].at \in Active
    BY <1>2 DEF RecordPolicy, JournalPolicy, At, Active, Running, Points
  <2>2. row \in Rows /\ row.kind = "policy"
    <3>1. call[r].decision \in {"NONE", "PERMIT", "DENY", "REVIEW_REQUIRED"}
      BY <1>0 DEF TypeOK, Calls, P!Decisions
    <3>2. Row("policy", p, r) \in Rows /\ Row("policy", p, r).kind = "policy"
      BY RowTypes DEF Kinds
    <3> QED BY <3>1, <3>2 DEF Rows
  <2> HIDE DEF row
  <2>3. log' = Append(log, row) /\ ~HeldByRows
    BY <2>1, <2>2, ActiveWrites
  <2> QED BY <2>1, <2>2, <2>3
<1>3. ASSUME NEW r \in Requests, NEW p \in Processes, NEW o \in Outcomes,
             RecordIntent(r, p, o)
      PROVE  \E row \in Rows : Good(row)
  <2> DEFINE row == Row("intent", p, r)
  <2>1. /\ Write(p, row, o) /\ UNCHANGED history
        /\ call[r].process = p /\ call[r].at \in Active /\ call[r].at = "permitted"
    BY <1>3 DEF RecordIntent, JournalIntent, At, Active, Running, Points
  <2>2. row \in Rows /\ row.kind = "intent" /\ row.request = r
    BY RowTypes DEF Kinds
  <2> HIDE DEF row
  <2>3. log' = Append(log, row) /\ ~HeldByRows /\ Pending = {r}
    BY <2>1, <2>2, ActiveWrites
  <2>4. ~Recorded("intent", r)
    BY <2>1 DEF IInv, CallInv
  <2> QED BY <2>1, <2>2, <2>3, <2>4
<1>4. ASSUME NEW r \in Requests, NEW p \in Processes, NEW o \in Outcomes,
             RecordFinish(r, p, o)
      PROVE  \E row \in Rows : Good(row)
  <2> DEFINE row == [Row("finish", p, r) EXCEPT !.denials = gateway[p].denials,
                                                !.hold = call[r].unknown]
  <2>1. /\ Write(p, row, o) /\ UNCHANGED history
        /\ call[r].process = p /\ call[r].at \in Active
    BY <1>4 DEF RecordFinish, JournalFinish, At, Active, Running, Points
  <2>2. row \in Rows /\ row.kind = "finish" /\ row.request = r
    <3>1. gateway[p].denials \in Nat /\ call[r].unknown \in BOOLEAN
      BY <1>0 DEF TypeOK, Gateways, Calls
    <3>2. Row("finish", p, r) \in Rows /\ Row("finish", p, r).kind = "finish"
          /\ Row("finish", p, r).request = r
      BY RowTypes DEF Kinds
    <3> QED BY <3>1, <3>2 DEF Rows
  <2> HIDE DEF row
  <2>3. log' = Append(log, row) /\ ~HeldByRows /\ ~Recorded("finish", r)
    BY <2>1, <2>2, ActiveWrites
  <2> QED BY <2>1, <2>2, <2>3
<1>5. ASSUME NEW r \in Requests, NEW p \in Processes, NEW o \in Outcomes,
             RecordHold(r, p, o)
      PROVE  \E row \in Rows : Good(row)
  <2> DEFINE row == Row("hold", p, journal[p].active)
  <2>1. Write(p, row, o) /\ UNCHANGED history
    BY <1>5 DEF RecordHold, JournalFailed
  <2>2. row \in Rows /\ row.kind = "hold"
    BY <1>0, RowTypes DEF Kinds, TypeOK, Journals
  <2> HIDE DEF row
  <2>3. log' = Append(log, row)
    BY <1>0, <2>1, <2>2, WriteTypes
  <2> QED BY <2>1, <2>2, <2>3
<1>6. ASSUME NEW p \in Processes, NEW o \in Outcomes, BootUp(p, o)
      PROVE  \E row \in Rows : Good(row)
  <2> DEFINE row == Row("boot", p, NoRequest)
  <2>1. Write(p, row, o) /\ UNCHANGED history /\ ~HeldByRows
    BY <1>6 DEF BootUp, Boot, IInv, MemoryInv
  <2>2. row \in Rows /\ row.kind = "boot"
    BY RowTypes DEF Kinds
  <2> HIDE DEF row
  <2>3. log' = Append(log, row)
    BY <1>0, <2>1, <2>2, WriteTypes
  <2> QED BY <2>1, <2>2, <2>3
<1>7. ASSUME NEW p \in Processes, NEW o \in Outcomes, Shutdown(p, o)
      PROVE  \E row \in Rows : Good(row)
  <2> DEFINE row == Row("close", p, NoRequest)
  <2>1. Write(p, row, o) /\ UNCHANGED history /\ ~HeldByRows
    BY <1>7 DEF Shutdown, JournalClose, Clean, IInv, MemoryInv
  <2>2. row \in Rows /\ row.kind = "close"
    BY RowTypes DEF Kinds
  <2> HIDE DEF row
  <2>3. log' = Append(log, row)
    BY <1>0, <2>1, <2>2, WriteTypes
  <2> QED BY <2>1, <2>2, <2>3
<1> HIDE DEF Good
<1>8. ASSUME NEW r \in Requests, NEW p \in Processes, CallStep(r, p)
      PROVE  \E row \in Rows : Good(row)
  <2>1. CASE Preflight(r, p) \/ \E judge \in JudgeAnswers, issued \in BOOLEAN :
                                   Answer(r, p, judge, issued)
    BY <2>1 DEF Preflight, Answer, journalVars
  <2>2. CASE Refuse(r, p) \/ Uncredentialed(r, p) \/ BindingInvalid(r, p) \/ Complete(r, p)
    BY <2>2 DEF Refuse, Uncredentialed, BindingInvalid, Complete, journalVars
  <2>3. CASE Dispatch(r, p) \/ \E unknown \in BOOLEAN : AdapterReturns(r, p, unknown)
    BY <2>3 DEF Dispatch, AdapterReturns, journalVars
  <2> QED BY <1>1, <1>2, <1>3, <1>4, <1>5, <1>8, <2>1, <2>2, <2>3 DEF CallStep
<1>9. ASSUME NEW p \in Processes, ProcessStep(p) PROVE \E row \in Rows : Good(row)
  <2>1. CASE Start(p) \/ Crash(p) \/ \E t \in Thresholds : Reconfigure(p, t)
    BY <2>1 DEF Start, Recover, Crash, JournalCrash, Reconfigure, journalVars
  <2> QED BY <1>6, <1>7, <1>9, <2>1 DEF ProcessStep
<1>10. ASSUME NEW r \in Requests, NEW p \in Processes, NEW topic, NEW expiry,
              Fault(r, p) \/ Arrive(r, p, topic, expiry)
       PROVE  FALSE
  BY <1>10 DEF Fault, Arrive, journalVars
<1>11. ~Tick /\ ~UNCHANGED vars
  BY DEF Tick, vars, journalVars
<1>12. \E row \in Rows : Good(row)
  BY <1>8, <1>9, <1>10, <1>11 DEF Next
<1> QED BY <1>12 DEF Good

\* Only hold rows follow a row that holds.
THEOREM HoldLasts == Spec => HoldIsPermanent
<1>1. ASSUME IInv, [Next]_vars, HeldByRows, NEW i \in DOMAIN log' \ DOMAIN log
      PROVE  log'[i].kind = "hold"
  <2>1. log' # log
    BY <1>1
  <2>2. PICK row \in Rows : log' = Append(log, row) /\ row.kind = "hold"
    BY <1>1, <2>1, Growth
  <2> QED BY <1>1, <2>2, AppendedIndices DEF IInv, TableInv
<1>2. IInv /\ [Next]_vars =>
        [HeldByRows => \A i \in DOMAIN log' \ DOMAIN log : log'[i].kind = "hold"]_vars
  BY <1>1
<1> QED BY Invariance, <1>2, PTL DEF Spec, HoldIsPermanent

\* A request's fate hangs on its own rows and on what happened to it.
LEMMA FateFrame ==
  ASSUME NEW r, Recorded("intent", r)' <=> Recorded("intent", r),
         Recorded("finish", r)' <=> Recorded("finish", r),
         r \in dispatched' <=> r \in dispatched, r \in confirmed' <=> r \in confirmed
  PROVE  FateOf(r)' = FateOf(r)
BY DEF FateOf, Settled

\* A row is an intent, settles a fate or leaves all of them as they are.
LEMMA RowsKeepLedger ==
  ASSUME IInv, [Next]_vars, log' # log
  PROVE  Ledger!Next \/ \A s \in Requests : FateOf(s)' = FateOf(s)
<1> DEFINE fates == [r \in Requests |-> FateOf(r)]
<1>1. PICK row \in Rows :
        /\ log' = Append(log, row)
        /\ UNCHANGED history
        /\ row.kind = "intent" => /\ row.request \in Requests /\ ~HeldByRows
                                  /\ Pending = {row.request}
                                  /\ ~Recorded("intent", row.request)
        /\ row.kind = "finish" => /\ row.request \in Requests
                                  /\ ~Recorded("finish", row.request)
  BY Growth
<1>2. UNCHANGED <<dispatched, confirmed>> /\ log \in Seq(Rows)
  BY <1>1 DEF history, IInv, TableInv
<1>3. \A k, s : Recorded(k, s)' <=> Recorded(k, s) \/ (row.kind = k /\ row.request = s)
  BY <1>1, <1>2, AppendedRecorded
<1>4. \A s \in Requests : s \in dispatched => Recorded("intent", s)
  BY DEF IInv, CallInv
<1>5. CASE row.kind \notin {"intent", "finish"}
  BY <1>2, <1>3, <1>5, FateFrame
<1>6. CASE row.kind = "intent"
  <2> DEFINE r == row.request
  <2>1. r \in Requests /\ ~HeldByRows /\ Pending = {r} /\ ~Recorded("intent", r)
    BY <1>1, <1>6
  <2> HIDE DEF r
  <2>2. Recorded("begin", r) /\ ~Recorded("finish", r) /\ r \notin dispatched
    BY <1>4, <2>1, PendingRecorded
  <2>3. FateOf(r) = "none" /\ FateOf(r)' = "intended"
    BY <1>2, <1>3, <1>6, <2>1, <2>2 DEF FateOf, Settled, r
  <2>4. \A s \in Requests \ {r} : FateOf(s)' = FateOf(s)
    BY <1>2, <1>3, <1>6, FateFrame DEF r
  <2>5. ASSUME NEW s \in Requests \ {r} PROVE FateOf(s) \in {"none", "settled"}
    <3>1. CASE ~Recorded("intent", s)
      BY <1>4, <3>1 DEF FateOf
    <3>2. CASE Recorded("intent", s)
      <4>1. Recorded("finish", s)
        BY <2>1, <3>2, PendingRecorded DEF IInv, TableInv
      <4>2. Settled(s)
        BY <2>1, <4>1 DEF Settled, IInv, CallInv
      <4> QED BY <3>2, <4>2 DEF FateOf
    <3> QED BY <3>1, <3>2
  <2>6. fates' = [fates EXCEPT ![r] = "intended"]
    BY <2>1, <2>3, <2>4
  <2>7. Ledger!Intend(r)
    BY <2>1, <2>3, <2>5, <2>6 DEF Ledger!Intend, Ledger!AllOthersSettled
  <2> QED BY <2>1, <2>7 DEF Ledger!Next
<1>7. CASE row.kind = "finish"
  <2> DEFINE r == row.request
  <2>1. r \in Requests /\ ~Recorded("finish", r)
    BY <1>1, <1>7
  <2> HIDE DEF r
  <2>2. \A s \in Requests \ {r} : FateOf(s)' = FateOf(s)
    BY <1>2, <1>3, <1>7, FateFrame DEF r
  <2>3. Recorded("finish", r)' /\ (Recorded("intent", r)' <=> Recorded("intent", r))
    BY <1>3, <1>7 DEF r
  <2>4. CASE Recorded("intent", r) /\ (r \in dispatched => r \in confirmed)
    <3>1. FateOf(r) \in {"intended", "dispatched"} /\ FateOf(r)' = "settled"
      BY <1>2, <2>1, <2>3, <2>4 DEF FateOf, Settled
    <3>2. fates' = [fates EXCEPT ![r] = "settled"]
      BY <2>1, <2>2, <3>1
    <3>3. Ledger!Settle(r)
      BY <2>1, <3>1, <3>2 DEF Ledger!Settle
    <3> QED BY <2>1, <3>3 DEF Ledger!Next
  <2>5. CASE ~(Recorded("intent", r) /\ (r \in dispatched => r \in confirmed))
    <3>1. FateOf(r)' = FateOf(r)
      BY <1>2, <2>1, <2>3, <2>5 DEF FateOf, Settled
    <3> QED BY <2>2, <3>1
  <2> QED BY <2>4, <2>5
<1> QED BY <1>5, <1>6, <1>7

\* The gateway with its journal is the ledger of dispatches: an intent is committed before
\* its dispatch, and while the fate of one is unknown, no other is intended.
THEOREM GatewayIsLedger == Spec => ImplementsLedger
<1> DEFINE fates == [r \in Requests |-> FateOf(r)]
<1>1. Init => Ledger!Init
  <2> SUFFICES ASSUME Init PROVE \A r \in Requests : FateOf(r) = "none"
    BY DEF Ledger!Init
  <2>1. \A r \in Requests : ~Recorded("intent", r)
    BY RowTypes DEF Init, JournalInit, Recorded, Indices, Row
  <2> QED BY <2>1 DEF Init, FateOf
<1>2. IInv /\ [Next]_vars => [Ledger!Next]_fates
  <2> SUFFICES ASSUME IInv, [Next]_vars, ~(\A r \in Requests : FateOf(r)' = FateOf(r))
               PROVE  Ledger!Next
    OBVIOUS
  <2>1. CASE log' # log
    BY <2>1, RowsKeepLedger
  <2>2. CASE log' = log
    <3>1. \A k, s : Recorded(k, s)' <=> Recorded(k, s)
      BY <2>2, SameTable
    <3>2. PICK r \in Requests, p \in Processes :
             Dispatch(r, p) \/ \E unknown \in BOOLEAN : AdapterReturns(r, p, unknown)
      BY <3>1, HistorySteps, FateFrame DEF history
    <3>3. CASE Dispatch(r, p)
      <4>1. /\ call[r].at = "intended" /\ dispatched' = dispatched \cup {r}
            /\ confirmed' = confirmed
        BY <3>3 DEF Dispatch, At
      <4>2. Recorded("intent", r) /\ ~Recorded("finish", r) /\ r \notin dispatched
        BY <4>1 DEF IInv, CallInv, Active, Running, Points
      <4>3. FateOf(r) = "intended" /\ FateOf(r)' = "dispatched"
        BY <3>1, <4>1, <4>2 DEF FateOf, Settled
      <4>4. \A s \in Requests \ {r} : FateOf(s)' = FateOf(s)
        BY <3>1, <4>1, FateFrame
      <4>5. fates' = [fates EXCEPT ![r] = "dispatched"]
        BY <4>3, <4>4
      <4>6. Ledger!Dispatch(r)
        BY <4>3, <4>5 DEF Ledger!Dispatch
      <4> QED BY <4>6 DEF Ledger!Next
    <3>4. CASE \E unknown \in BOOLEAN : AdapterReturns(r, p, unknown)
      <4>1. /\ call[r].at = "executing" /\ dispatched' = dispatched
            /\ \A s \in Requests \ {r} : s \in confirmed' <=> s \in confirmed
        BY <3>4 DEF AdapterReturns, At
      <4>2. ~Recorded("finish", r)
        BY <4>1 DEF IInv, CallInv, Active, Running, Points
      <4>3. FateOf(r)' = FateOf(r)
        BY <3>1, <4>1, <4>2 DEF FateOf, Settled
      <4>4. \A s \in Requests \ {r} : FateOf(s)' = FateOf(s)
        BY <3>1, <4>1, FateFrame
      <4> QED BY <4>3, <4>4
    <3> QED BY <3>2, <3>3, <3>4
  <2> QED BY <2>1, <2>2
<1> QED BY <1>1, <1>2, Invariance, PTL DEF Spec, ImplementsLedger, Ledger!Spec

\* A request whose intent is committed and whose outcome is not.
Unsettled(r) == FateOf(r) \in {"intended", "dispatched"}
OneUnsettled == \A q, r \in Requests : Unsettled(q) /\ Unsettled(r) => q = r

\* What the ledger lets the fate of a request become.
FateAdvances(r) == \/ FateOf(r)' = FateOf(r)
                   \/ FateOf(r) = "none" /\ FateOf(r)' = "intended"
                   \/ FateOf(r) = "intended" /\ FateOf(r)' = "dispatched"
                   \/ Unsettled(r) /\ FateOf(r)' = "settled"

\* What that comes to: in all processes together at most one dispatch is in doubt, nothing is
\* dispatched without an intent or twice, and a settled dispatch stays settled.
THEOREM OneInDoubt == Spec => []OneUnsettled /\ [][\A r \in Requests : FateAdvances(r)]_vars
<1> DEFINE fates == [r \in Requests |-> FateOf(r)]
<1>1. Ledger!Init => OneUnsettled
  <2> SUFFICES ASSUME Ledger!Init PROVE \A r \in Requests : FateOf(r) = "none"
    BY DEF OneUnsettled, Unsettled
  <2>1. \A r \in Requests : fates[r] = "none"
    BY DEF Ledger!Init
  <2> QED BY <2>1
<1>2. OneUnsettled /\ [Ledger!Next]_fates
        => OneUnsettled' /\ \A r \in Requests : FateAdvances(r)
  <2> SUFFICES ASSUME OneUnsettled, [Ledger!Next]_fates
               PROVE  OneUnsettled' /\ \A r \in Requests : FateAdvances(r)
    OBVIOUS
  <2>1. \A r \in Requests : fates[r] = FateOf(r) /\ fates'[r] = FateOf(r)'
    OBVIOUS
  <2>2. CASE fates' = fates
    <3>1. \A r \in Requests : FateOf(r)' = FateOf(r)
      BY <2>1, <2>2
    <3> QED BY <3>1 DEF OneUnsettled, Unsettled, FateAdvances
  <2>3. CASE Ledger!Next
    <3>1. PICK r \in Requests : Ledger!Intend(r) \/ Ledger!Dispatch(r) \/ Ledger!Settle(r)
      BY <2>3 DEF Ledger!Next
    <3>2. \A s \in Requests \ {r} : FateOf(s)' = FateOf(s)
      BY <2>1, <3>1 DEF Ledger!Intend, Ledger!Dispatch, Ledger!Settle
    <3>3. CASE Ledger!Intend(r)
      <4>1. FateOf(r) = "none" /\ FateOf(r)' = "intended"
        BY <2>1, <3>3 DEF Ledger!Intend
      <4>2. \A s \in Requests \ {r} : FateOf(s) \in {"none", "settled"}
        BY <2>1, <3>3 DEF Ledger!Intend, Ledger!AllOthersSettled
      <4> QED BY <3>2, <4>1, <4>2 DEF OneUnsettled, Unsettled, FateAdvances
    <3>4. CASE Ledger!Dispatch(r) \/ Ledger!Settle(r)
      <4>1. \/ FateOf(r) = "intended" /\ FateOf(r)' = "dispatched"
            \/ Unsettled(r) /\ FateOf(r)' = "settled"
        BY <2>1, <3>4 DEF Ledger!Dispatch, Ledger!Settle, Unsettled
      <4> QED BY <3>2, <4>1 DEF OneUnsettled, Unsettled, FateAdvances
    <3> QED BY <3>1, <3>3, <3>4
  <2> QED BY <2>2, <2>3
<1>3. (\A r \in Requests : FateAdvances(r)) => [\A r \in Requests : FateAdvances(r)]_vars
  OBVIOUS
<1> QED BY <1>1, <1>2, <1>3, GatewayIsLedger, PTL DEF ImplementsLedger, Ledger!Spec
-------------------------------------------------------------------------------
\* The constructor's loop.  Replay is a recursive function on the naturals; that there is
\* one, and that it depends on the rows before only, follows from the least number at
\* which it would be otherwise.
LEMMA LeastNumber ==
  ASSUME NEW T, T \subseteq Nat, T # {}
  PROVE  \E n \in T : \A m \in T : n <= m
<1> DEFINE R == OpToRel(<, Nat)
<1>1. IsWellFoundedOn(R, Nat)
  BY NatLessThanWellFounded
<1>2. \A m, n \in Nat : m < n => <<m, n>> \in R
  BY DEF OpToRel
<1> HIDE DEF R
<1>3. PICK n \in T : \A m \in T : ~(<<m, n>> \in R)
  BY <1>1, WFMin
<1>4. ASSUME NEW m \in T PROVE n <= m
  <2>1. m \in Nat /\ n \in Nat
    OBVIOUS
  <2>2. ~(m < n)
    BY <1>2, <1>3, <2>1
  <2> QED BY <2>1, <2>2
<1> QED BY <1>4

\* The first n turns of the loop over rows.
Turns(f, rows, n) == /\ DOMAIN f = 0..n
                     /\ f[0] = ReplayState
                     /\ \A i \in 1..n : f[i] = ReplayRow(f[i - 1], rows[i])

LEMMA TurnsExist == ASSUME NEW rows, NEW n \in Nat PROVE \E f : Turns(f, rows, n)
<1> DEFINE T == {i \in Nat : ~\E f : Turns(f, rows, i)}
<1> SUFFICES ASSUME T # {} PROVE FALSE
  OBVIOUS
<1>1. PICK i \in T : \A j \in T : i <= j
  BY LeastNumber
<1>2. i \in Nat /\ ~\E f : Turns(f, rows, i)
  OBVIOUS
<1>3. i # 0
  <2>1. Turns([j \in 0..0 |-> ReplayState], rows, 0)
    BY DEF Turns
  <2> QED BY <1>2, <2>1
<1>4. i - 1 \in Nat /\ \E f : Turns(f, rows, i - 1)
  BY <1>1, <1>2, <1>3
<1>5. PICK f : Turns(f, rows, i - 1)
  BY <1>4
<1>6. Turns([j \in 0..i |-> IF j = i THEN ReplayRow(f[i - 1], rows[i]) ELSE f[j]], rows, i)
  BY <1>2, <1>3, <1>5 DEF Turns
<1> QED BY <1>2, <1>6

LEMMA TurnsAgree ==
  ASSUME NEW rows, NEW n \in Nat, NEW m \in 0..n, NEW f, NEW g,
         Turns(f, rows, m), Turns(g, rows, n)
  PROVE  f[m] = g[m]
<1> DEFINE T == {i \in 0..m : f[i] # g[i]}
<1> SUFFICES ASSUME T # {} PROVE FALSE
  OBVIOUS
<1>1. PICK i \in T : \A j \in T : i <= j
  <2>1. T \subseteq Nat
    OBVIOUS
  <2> HIDE DEF T
  <2> QED BY <2>1, LeastNumber
<1>2. CASE i = 0
  BY <1>2 DEF Turns
<1>3. CASE i # 0
  <2>1. i - 1 \in 0..m /\ f[i - 1] = g[i - 1]
    BY <1>1, <1>3
  <2>2. i \in 1..m /\ i \in 1..n
    BY <1>3
  <2> QED BY <2>1, <2>2 DEF Turns
<1> QED BY <1>2, <1>3

LEMMA LoopExists ==
  ASSUME NEW rows
  PROVE  LET f == CHOOSE g : g = [n \in Nat |-> IF n = 0 THEN ReplayState
                                                ELSE ReplayRow(g[n - 1], rows[n])]
         IN  f = [n \in Nat |-> IF n = 0 THEN ReplayState ELSE ReplayRow(f[n - 1], rows[n])]
<1> DEFINE turns(n) == CHOOSE f : Turns(f, rows, n)
           F == [n \in Nat |-> turns(n)[n]]
           Body(g) == [n \in Nat |-> IF n = 0 THEN ReplayState ELSE ReplayRow(g[n - 1], rows[n])]
<1>1. ASSUME NEW n \in Nat PROVE Turns(turns(n), rows, n)
  BY TurnsExist
<1> HIDE DEF turns
<1>2. F[0] = ReplayState
  BY <1>1 DEF Turns
<1>3. ASSUME NEW n \in Nat, n # 0 PROVE F[n] = ReplayRow(F[n - 1], rows[n])
  <2>1. n - 1 \in Nat /\ n \in 1..n /\ n - 1 \in 0..n
    BY <1>3
  <2>2. turns(n)[n] = ReplayRow(turns(n)[n - 1], rows[n])
    BY <1>1, <2>1 DEF Turns
  <2>3. turns(n - 1)[n - 1] = turns(n)[n - 1]
    <3>1. Turns(turns(n - 1), rows, n - 1) /\ Turns(turns(n), rows, n)
      BY <1>1, <2>1
    <3>2. PICK m \in 0..n : m = n - 1
      BY <2>1
    <3>3. PICK f, g : f = turns(n - 1) /\ g = turns(n)
      OBVIOUS
    <3>4. Turns(f, rows, m) /\ Turns(g, rows, n)
      BY <3>1, <3>2, <3>3
    <3>5. f[m] = g[m]
      BY <3>2, <3>4, TurnsAgree
    <3> QED BY <3>2, <3>3, <3>5
  <2> QED BY <2>1, <2>2, <2>3
<1>4. F = Body(F)
  BY <1>2, <1>3
<1> HIDE DEF F
<1>5. \E g : g = Body(g)
  BY <1>4
<1> QED BY <1>5

LEMMA ReplayLoop ==
  /\ Replay = [n \in Nat |-> IF n = 0 THEN ReplayState ELSE ReplayRow(Replay[n - 1], log[n])]
  /\ Replay' = [n \in Nat |-> IF n = 0 THEN ReplayState ELSE ReplayRow(Replay'[n - 1], log'[n])]
BY LoopExists DEF Replay

\* One more row is one more turn.
LEMMA AppendedReplay ==
  ASSUME log \in Seq(Rows), NEW row \in Rows, log' = Append(log, row)
  PROVE  Replay'[Len(log')] = ReplayRow(Replay[Len(log)], row)
<1> DEFINE n == Len(log)
           T == {i \in 0..n : Replay'[i] # Replay[i]}
<1>1. /\ n \in Nat /\ Len(log') = n + 1 /\ log'[n + 1] = row
      /\ \A i \in 1..n : log'[i] = log[i]
  BY AppendedIndices
<1> HIDE DEF n
<1>2. T = {}
  <2> SUFFICES ASSUME T # {} PROVE FALSE
    OBVIOUS
  <2>1. PICK i \in T : \A j \in T : i <= j
    <3>1. T \subseteq Nat
      BY <1>1
    <3> HIDE DEF T
    <3> QED BY <3>1, LeastNumber
  <2>2. CASE i = 0
    BY <2>2, ReplayLoop
  <2>3. CASE i # 0
    <3>1. i \in 1..n /\ i \in Nat /\ i - 1 \in 0..n
      BY <1>1, <2>3
    <3>2. Replay'[i - 1] = Replay[i - 1]
      BY <2>1, <3>1
    <3> QED BY <1>1, <2>3, <3>1, <3>2, ReplayLoop
  <2> QED BY <2>2, <2>3
<1>3. Replay'[n] = Replay[n]
  BY <1>1, <1>2
<1>4. Replay'[n + 1] = ReplayRow(Replay'[n], row)
  BY <1>1, ReplayLoop
<1> QED BY <1>1, <1>3, <1>4 DEF n

\* When one more row leaves a generation open, and who is pending then.
LEMMA AppendedGeneration ==
  ASSUME log \in Seq(Rows), NEW row \in Rows, log' = Append(log, row)
  PROVE  /\ row.kind = "boot" => OpenGeneration'
         /\ row.kind = "close" => ~OpenGeneration'
         /\ row.kind \notin {"boot", "close"} => (OpenGeneration' <=> OpenGeneration)
         /\ row.kind = "boot" /\ OpenGeneration => HeldByRows'
<1>1. PICK n : n = Len(log) + 1
  OBVIOUS
<1>2. /\ Len(log) \in Nat /\ n \in Nat \ {0} /\ Len(log') = n
      /\ \A k : Indices(k) \subseteq 1..(n - 1)
      /\ \A k : Indices(k)' = Indices(k) \cup (IF row.kind = k THEN {n} ELSE {})
  <2>1. Len(log) \in Nat /\ n - 1 = Len(log)
    BY <1>1, AppendedIndices
  <2> QED BY <1>1, <2>1, AppendedIndices
<1>3. /\ OpenGeneration <=> \E i \in Indices("boot") : OpenSince(i, n)
      /\ OpenGeneration' <=> \E i \in Indices("boot")' : OpenSince(i, n + 1)'
  BY <1>1, <1>2 DEF OpenGeneration
<1>4. /\ \A i, j \in 1..n : OpenSince(i, j)' <=> OpenSince(i, j)
      /\ \A i : OpenSince(i, n + 1)' <=> OpenSince(i, n) /\ ~(row.kind = "close" /\ i < n)
  <2>1. \A c \in Indices("close") : c \in 1..(n - 1) /\ c < n /\ c < n + 1
    BY <1>2
  <2>2. Indices("close")' = Indices("close") \cup (IF row.kind = "close" THEN {n} ELSE {})
    BY <1>2
  <2>3. ASSUME NEW i \in 1..n, NEW j \in 1..n PROVE OpenSince(i, j)' <=> OpenSince(i, j)
    BY <1>2, <2>1, <2>2 DEF OpenSince
  <2>4. ASSUME NEW i
        PROVE OpenSince(i, n + 1)' <=> OpenSince(i, n) /\ ~(row.kind = "close" /\ i < n)
    BY <1>2, <2>1, <2>2 DEF OpenSince
  <2> QED BY <2>3, <2>4
<1>5. row.kind = "boot" => OpenGeneration'
  <2> SUFFICES ASSUME row.kind = "boot" PROVE OpenGeneration'
    OBVIOUS
  <2>1. n \in Indices("boot")'
    BY <1>2
  <2>2. OpenSince(n, n)
    BY <1>2 DEF OpenSince
  <2> QED BY <1>3, <1>4, <2>1, <2>2
<1>6. row.kind = "close" => ~OpenGeneration'
  <2> SUFFICES ASSUME row.kind = "close", NEW i \in Indices("boot")'
               PROVE  ~OpenSince(i, n + 1)'
    BY <1>3
  <2>1. i \in 1..(n - 1) /\ i < n
    BY <1>2
  <2> QED BY <1>4, <2>1
<1>7. row.kind \notin {"boot", "close"} => (OpenGeneration' <=> OpenGeneration)
  BY <1>2, <1>3, <1>4
<1>8. row.kind = "boot" /\ OpenGeneration => HeldByRows'
  <2> SUFFICES ASSUME row.kind = "boot", OpenGeneration PROVE HeldByRows'
    OBVIOUS
  <2>1. PICK i \in Indices("boot") : OpenSince(i, n)
    BY <1>3
  <2>2. i \in 1..n /\ n \in 1..n /\ i < n /\ i \in Indices("boot")' /\ n \in Indices("boot")'
    BY <1>2
  <2>3. OpenSince(i, n)'
    BY <1>4, <2>1, <2>2
  <2> QED BY <2>2, <2>3 DEF HeldByRows
<1> QED BY <1>5, <1>6, <1>7, <1>8

LEMMA AppendedPending ==
  ASSUME log \in Seq(Rows), NEW row \in Rows, log' = Append(log, row),
         row.kind \in {"begin", "finish"} => /\ row.request \in Requests
                                             /\ ~Recorded("finish", row.request)
  PROVE  /\ row.kind = "begin" => Pending' = Pending \cup {row.request}
         /\ row.kind = "finish" => Pending' = Pending \ {row.request}
         /\ row.kind \notin {"begin", "finish"} => Pending' = Pending
<1>1. \A k, r : Recorded(k, r)' <=> Recorded(k, r) \/ (row.kind = k /\ row.request = r)
  BY AppendedRecorded
<1> QED BY <1>1, PendingRecorded

\* What the loop makes of the table.
LoopReads == Replay[Len(log)] = [held |-> HeldByRows, open |-> OpenGeneration,
                                 pending |-> Pending, denials |-> ReplayedDenials]

\* An empty store, and one more row of any kind.
LEMMA InitLoop == Init => LoopReads
<1> SUFFICES ASSUME Init PROVE LoopReads
  OBVIOUS
<1> DEFINE row == Row("provision", NoProcess, NoRequest)
<1>1. row.kind = "provision" /\ log = <<row>>
  BY DEF Init, JournalInit, Row
<1> HIDE DEF row
<1>2. Len(log) = 1 /\ log[1] = row /\ DOMAIN log = 1..1
  BY <1>1
<1>3. \A k \in Kinds \ {"provision"} : Indices(k) = {}
  BY <1>1, <1>2 DEF Indices
<1>4. Pending = {} /\ HeldByRows = FALSE /\ OpenGeneration = FALSE /\ FinishedDenials = {0}
  BY <1>3 DEF Pending, HeldByRows, OpenGeneration, FinishedDenials, Kinds
<1>5. ReplayedDenials = 0
  BY <1>4 DEF ReplayedDenials
<1>6. Replay[1] = ReplayRow(Replay[0], log[1]) /\ Replay[0] = ReplayState
  BY ReplayLoop
<1>7. Replay[1] = ReplayState
  BY <1>1, <1>2, <1>6 DEF ReplayRow
<1> QED BY <1>2, <1>4, <1>5, <1>7 DEF LoopReads, ReplayState

LEMMA NextLoop == IInv /\ LoopReads /\ [Next]_vars => LoopReads'
<1> SUFFICES ASSUME IInv, LoopReads, [Next]_vars PROVE LoopReads'
  OBVIOUS
<1>1. CASE log' = log
  <2>1. Replay' = Replay
    BY <1>1 DEF Replay
  <2>2. /\ HeldByRows' = HeldByRows /\ OpenGeneration' = OpenGeneration
        /\ Pending' = Pending /\ ReplayedDenials' = ReplayedDenials
    BY <1>1, SameTable DEF HeldByRows, OpenGeneration
  <2> QED BY <1>1, <2>1, <2>2 DEF LoopReads
<1>2. CASE log' # log
  <2>1. PICK row \in Rows :
          /\ log' = Append(log, row)
          /\ row.kind \in {"begin", "finish"} => /\ row.request \in Requests
                                                 /\ ~Recorded("finish", row.request)
    BY <1>2, Growth
  <2>2. log \in Seq(Rows) /\ TableInv /\ row.kind \in Kinds /\ row.denials \in Nat
        /\ row.hold \in BOOLEAN
    BY DEF IInv, TableInv, Rows
  <2> DEFINE s == Replay[Len(log)]
  <2>3. s = [held |-> HeldByRows, open |-> OpenGeneration,
             pending |-> Pending, denials |-> ReplayedDenials]
    BY DEF LoopReads
  <2>4. Replay'[Len(log')] = ReplayRow(s, row)
    BY <2>1, <2>2, AppendedReplay
  <2> HIDE DEF s
  <2>5. /\ HeldByRows => HeldByRows'
        /\ row.kind = "hold" \/ (row.kind = "finish" /\ row.hold) => HeldByRows'
        /\ HeldByRows' => \/ HeldByRows \/ row.kind = "hold"
                          \/ row.kind = "finish" /\ row.hold
                          \/ row.kind = "boot" /\ OpenGeneration
    BY <2>1, <2>2, AppendedHold
  <2>6. /\ row.kind = "boot" => OpenGeneration'
        /\ row.kind = "close" => ~OpenGeneration'
        /\ row.kind \notin {"boot", "close"} => (OpenGeneration' <=> OpenGeneration)
        /\ row.kind = "boot" /\ OpenGeneration => HeldByRows'
    BY <2>1, <2>2, AppendedGeneration
  <2>7. /\ row.kind = "begin" => Pending' = Pending \cup {row.request}
        /\ row.kind = "finish" => Pending' = Pending \ {row.request}
        /\ row.kind \notin {"begin", "finish"} => Pending' = Pending
    BY <2>1, <2>2, AppendedPending
  <2>8. /\ row.kind # "finish" => ReplayedDenials' = ReplayedDenials
        /\ row.kind = "finish" => ReplayedDenials' = IF row.denials > ReplayedDenials
                                                     THEN row.denials ELSE ReplayedDenials
    BY <2>1, <2>2, AppendedDenials
  <2>9. HeldByRows \in BOOLEAN /\ OpenGeneration \in BOOLEAN
        /\ HeldByRows' \in BOOLEAN /\ OpenGeneration' \in BOOLEAN
    BY DEF HeldByRows, OpenGeneration
  <2> DEFINE t == [held |-> HeldByRows', open |-> OpenGeneration',
                   pending |-> Pending', denials |-> ReplayedDenials']
  <2>10. ReplayRow(s, row) = t
    <3>1. CASE row.kind = "boot"
      <4>1. HeldByRows' = (HeldByRows \/ OpenGeneration) /\ OpenGeneration' = TRUE
        BY <2>5, <2>6, <2>9, <3>1
      <4>2. ReplayRow(s, row) = [s EXCEPT !.held = @ \/ s.open, !.open = TRUE]
        BY <3>1 DEF ReplayRow
      <4> QED BY <2>3, <2>7, <2>8, <3>1, <4>1, <4>2
    <3>2. CASE row.kind = "close"
      <4>1. HeldByRows' = HeldByRows /\ OpenGeneration' = FALSE
        BY <2>5, <2>6, <2>9, <3>2
      <4>2. ReplayRow(s, row) = [s EXCEPT !.open = FALSE]
        BY <3>2 DEF ReplayRow
      <4> QED BY <2>3, <2>7, <2>8, <3>2, <4>1, <4>2
    <3>3. CASE row.kind = "begin"
      <4>1. HeldByRows' = HeldByRows /\ OpenGeneration' = OpenGeneration
        BY <2>5, <2>6, <2>9, <3>3
      <4>2. ReplayRow(s, row) = [s EXCEPT !.pending = @ \cup {row.request}]
        BY <3>3 DEF ReplayRow
      <4> QED BY <2>3, <2>7, <2>8, <3>3, <4>1, <4>2
    <3>4. CASE row.kind = "finish"
      <4>1. HeldByRows' = (HeldByRows \/ row.hold) /\ OpenGeneration' = OpenGeneration
        BY <2>2, <2>5, <2>6, <2>9, <3>4
      <4>2. ReplayRow(s, row) = [s EXCEPT !.pending = @ \ {row.request}, !.held = @ \/ row.hold,
                                          !.denials = IF row.denials > @ THEN row.denials ELSE @]
        BY <3>4 DEF ReplayRow
      <4> QED BY <2>3, <2>7, <2>8, <3>4, <4>1, <4>2
    <3>5. CASE row.kind = "hold"
      <4>1. HeldByRows' = TRUE /\ OpenGeneration' = OpenGeneration
        BY <2>5, <2>6, <2>9, <3>5
      <4>2. ReplayRow(s, row) = [s EXCEPT !.held = TRUE]
        BY <3>5 DEF ReplayRow
      <4> QED BY <2>3, <2>7, <2>8, <3>5, <4>1, <4>2
    <3>6. CASE row.kind \in {"provision", "policy", "intent"}
      <4>1. HeldByRows' = HeldByRows /\ OpenGeneration' = OpenGeneration
        BY <2>5, <2>6, <2>9, <3>6
      <4>2. ReplayRow(s, row) = s
        BY <3>6 DEF ReplayRow
      <4> QED BY <2>3, <2>7, <2>8, <3>6, <4>1, <4>2
    <3> QED BY <2>2, <3>1, <3>2, <3>3, <3>4, <3>5, <3>6 DEF Kinds
  <2> QED BY <2>4, <2>10 DEF LoopReads
<1> QED BY <1>1, <1>2

\* What the table is said to mean is what the constructor's row-by-row loop computes of it,
\* however many rows there are.
THEOREM LoopReadsTable == Spec => []ReplayIsLoop
<1>1. Init => LoopReads
  BY InitLoop
<1>2. LoopReads => ReplayIsLoop
  BY DEF LoopReads, ReplayIsLoop
<1> QED BY <1>1, <1>2, NextLoop, Invariance, PTL DEF Spec
===============================================================================
