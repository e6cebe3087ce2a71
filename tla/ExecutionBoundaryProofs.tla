------------------------ MODULE ExecutionBoundaryProofs ------------------------
(***************************************************************************)
(* Proofs about ExecutionBoundary for every set of envelopes, addresses,    *)
(* requests and contexts, every clock and every capacity.                   *)
(***************************************************************************)
EXTENDS ExecutionBoundary, FunctionTheorems, FiniteSetTheorems, TLAPS

\* Every retained entry belongs to a live object at its key, and no two live objects
\* share an address: the dictionary keeps its objects alive.
AddressesDiffer ==
    /\ \A a \in DOMAIN issued : /\ issued[a].envelope \in DOMAIN object
                                /\ object[issued[a].envelope].address = a
                                /\ \A h \in held : object[h].address = a
                                                   => h = issued[a].envelope
    /\ \A g, h \in held : object[g].address = object[h].address => g = h

\* A retained entry describes what was permitted, and its envelope is unspent.
EntriesIntact ==
    \A a \in DOMAIN issued :
        LET e == issued[a].envelope IN
        /\ e \in DOMAIN permits
        /\ issued[a].serialized.request = permits[e].request
        /\ issued[a].serialized.invocation = permits[e].invocation
        /\ issued[a].serialized.context = permits[e].context
        /\ issued[a].context = permits[e].context
        /\ issued[a].issuedAt = permits[e].at
        /\ issued[a].expiresAt = permits[e].at + MaxAge
        /\ e \notin presented
        /\ BoundTo(a) = permits[e].request

\* The histories speak of envelopes that exist.
HistoryOfObjects == /\ presented \subseteq DOMAIN object
                    /\ DOMAIN permits \subseteq DOMAIN object
                    /\ DOMAIN verified \subseteq presented

IInv == /\ TypeOK
        /\ AddressesDiffer
        /\ EntriesIntact
        /\ HistoryOfObjects
        /\ ExactBinding
        /\ FreshWhenUsed
        /\ OneAuthorizationPerRequest

\* The empty dictionary is a dictionary, whatever its keys and values (used for Init).
LEMMA EmptyDictionary == ASSUME NEW S, NEW T PROVE IsDictionary([x \in {} |-> {}], S, T)
<1>1. DOMAIN [x \in {} |-> {}] = {}
  OBVIOUS
<1>2. [x \in {} |-> {}] \in [{} -> T]
  OBVIOUS
<1>3. QED
  BY <1>1, <1>2 DEF IsDictionary

\* The empty dictionaries of __init__ have their types.
LEMMA InitTypeOK == Init => TypeOK
<1> SUFFICES ASSUME Init PROVE TypeOK
  OBVIOUS
<1>1. IsDictionary(object, Envelopes, [address : Addresses, content : Content])
  BY EmptyDictionary, Zenon DEF Init
<1>2. IsDictionary(issued, Addresses, Retained)
  BY EmptyDictionary, Zenon DEF Init
<1>3. IsDictionary(permits, Envelopes, Call) /\ IsDictionary(verified, Envelopes, Call)
  BY EmptyDictionary, Zenon DEF Init
<1>4. uses \in [Envelopes -> Nat]
  BY DEF Init
<1>5. QED
  BY <1>1, <1>2, <1>3, <1>4, Zenon DEF Init, TypeOK

\* Storing one entry in a dictionary keeps it a dictionary.
LEMMA ExtendDictionary ==
  ASSUME NEW f, NEW S, NEW T, NEW x \in S, NEW v \in T, IsDictionary(f, S, T)
  PROVE  IsDictionary(Extend(f, x, v), S, T)
<1>1. DOMAIN Extend(f, x, v) = DOMAIN f \cup {x}
  BY DEF Extend
<1>2. \A y \in DOMAIN f \cup {x} : Extend(f, x, v)[y] \in T
  BY DEF Extend, IsDictionary
<1>3. Extend(f, x, v) = [y \in DOMAIN f \cup {x} |-> Extend(f, x, v)[y]]
  BY DEF Extend
<1>4. QED
  BY <1>1, <1>2, <1>3 DEF IsDictionary

\* Keeping some of the keys of a dictionary keeps it a dictionary.
LEMMA RestrictDictionary ==
  ASSUME NEW f, NEW S, NEW T, NEW K \in SUBSET DOMAIN f, IsDictionary(f, S, T)
  PROVE  IsDictionary(Restrict(f, K), S, T)
BY DEF Restrict, IsDictionary

\* Overwriting a stored entry keeps a dictionary.
LEMMA ReplaceDictionary ==
  ASSUME NEW f, NEW S, NEW T, NEW x \in DOMAIN f, NEW v \in T, IsDictionary(f, S, T)
  PROVE  /\ IsDictionary([f EXCEPT ![x] = v], S, T)
         /\ DOMAIN [f EXCEPT ![x] = v] = DOMAIN f
BY DEF IsDictionary

\* The fields evaluate() writes have their types.
LEMMA NewContentType ==
  ASSUME TypeOK, NEW r \in Requests, NEW i \in Invocations, NEW c \in Contexts
  PROVE  /\ NewContent(r, i, c) \in Content
         /\ now \in Nat
         /\ now + MaxAge \in Nat
<1>1. now \in Nat /\ now + MaxAge \in Nat
  BY TimeAssumption DEF TypeOK
<1>2. QED
  BY <1>1 DEF NewContent, Content

\* issue() and evaluate() keep the types: the purge restricts _issued, the new entry
\* extends it.
LEMMA IssueTypeOK ==
  ASSUME TypeOK,
         NEW e \in Envelopes, NEW a \in Addresses, NEW r \in Requests,
         NEW f \in Invocations, NEW i \in Invocations, NEW c \in Contexts,
         Issue(e, a, r, f, i, c)
  PROVE  TypeOK'
<1> DEFINE content == NewContent(r, i, c)
           entry == [envelope |-> e, serialized |-> content, context |-> c,
                     issuedAt |-> now, expiresAt |-> now + MaxAge]
           created == [address |-> a, content |-> content]
           call == [request |-> r, invocation |-> f, context |-> c, at |-> now]
<1>1. content \in Content /\ now \in Nat /\ now + MaxAge \in Nat
  BY NewContentType
<1>2. entry \in Retained
  BY <1>1 DEF Retained
<1>3. created \in [address : Addresses, content : Content]
  BY <1>1
<1>4. call \in Call
  BY DEF Call, TypeOK
<1> HIDE DEF content, entry, created, call
<1>5. object' = Extend(object, e, created)
  BY DEF Issue, created, content
<1>6. issued' = Extend(Restrict(issued, Unexpired), a, entry)
  BY DEF Issue, entry, content
<1>7. permits' = Extend(permits, e, call)
  BY DEF Issue, call
<1>8. IsDictionary(object', Envelopes, [address : Addresses, content : Content])
  BY <1>3, <1>5, ExtendDictionary DEF TypeOK
<1>9. IsDictionary(issued', Addresses, Retained)
  <2>1. IsDictionary(Restrict(issued, Unexpired), Addresses, Retained)
    BY RestrictDictionary DEF TypeOK, Unexpired
  <2>2. QED
    BY <2>1, <1>2, <1>6, ExtendDictionary
<1>10. IsDictionary(permits', Envelopes, Call)
  BY <1>4, <1>7, ExtendDictionary DEF TypeOK
<1>11. held' \subseteq DOMAIN object'
  BY <1>5 DEF Issue, Extend, TypeOK
<1>12. /\ now' \in Times /\ drifted' \in BOOLEAN /\ presented' \subseteq Envelopes
       /\ uses' \in [Envelopes -> Nat] /\ IsDictionary(verified', Envelopes, Call)
  BY DEF Issue, TypeOK
<1>13. QED
  BY <1>8, <1>9, <1>10, <1>11, <1>12 DEF TypeOK

\* consume() keeps the types, whether it returns the binding or raises.
LEMMA ConsumeTypeOK ==
  ASSUME TypeOK, NEW e \in Envelopes, NEW r \in Requests, NEW i \in Invocations,
         NEW c \in Contexts, NEW clockReads \in BOOLEAN,
         \/ Consume(e, r, i, c, clockReads)
         \/ Reject(e, r, i, c, clockReads)
  PROVE  TypeOK'
<1> DEFINE call == [request |-> r, invocation |-> i, context |-> c, at |-> now]
<1>1. IsDictionary(issued', Addresses, Retained)
  <2>1. issued' = Restrict(issued, DOMAIN issued \ {object[e].address})
    BY DEF Consume, Reject, Popped
  <2>2. QED
    BY <2>1, RestrictDictionary DEF TypeOK
<1>2. presented' \subseteq Envelopes
  BY DEF Consume, Reject, TypeOK
<1>3. uses' \in [Envelopes -> Nat]
  BY DEF Consume, Reject, TypeOK
<1>4. IsDictionary(verified', Envelopes, Call)
  <2>1. call \in Call
    BY DEF Call, TypeOK
  <2> HIDE DEF call
  <2>2. verified' = Extend(verified, e, call) \/ verified' = verified
    BY DEF Consume, Reject, call
  <2>3. QED
    BY <2>1, <2>2, ExtendDictionary DEF TypeOK
<1>5. UNCHANGED <<now, drifted, object, held, permits>>
  BY DEF Consume, Reject
<1>6. QED
  BY <1>1, <1>2, <1>3, <1>4, <1>5 DEF TypeOK

\* A caller's own copy and an overwritten object are typed like any other.
LEMMA ObjectTypeOK ==
  ASSUME TypeOK, NEW e \in Envelopes, NEW i \in Invocations,
         \/ \E source \in Envelopes, a \in Addresses : Copy(e, source, a, i)
         \/ \E t \in Times : Overwrite(e, i, t)
  PROVE  TypeOK'
<1>1. \A x \in DOMAIN object : object[x] \in [address : Addresses, content : Content]
  BY DEF TypeOK, IsDictionary
<1>2. /\ IsDictionary(object', Envelopes, [address : Addresses, content : Content])
      /\ held' \subseteq DOMAIN object'
  <2>1. ASSUME NEW source \in Envelopes, NEW a \in Addresses, Copy(e, source, a, i)
        PROVE  <1>2!1 /\ <1>2!2
    <3> DEFINE content == [object[source].content EXCEPT !.invocation = i]
               copied == [address |-> a, content |-> content]
    <3>1. object[source].content \in Content
      BY <2>1, <1>1 DEF Copy, TypeOK
    <3>2. content \in Content
      BY <3>1 DEF Content
    <3>3. copied \in [address : Addresses, content : Content]
      BY <3>2
    <3>4. object' = Extend(object, e, copied) /\ held' = held \cup {e}
      BY <2>1 DEF Copy
    <3> HIDE DEF copied
    <3>5. IsDictionary(object', Envelopes, [address : Addresses, content : Content])
      BY <3>3, <3>4, ExtendDictionary DEF TypeOK
    <3>6. QED
      BY <3>4, <3>5 DEF Extend, TypeOK
  <2>2. ASSUME NEW t \in Times, Overwrite(e, i, t) PROVE <1>2!1 /\ <1>2!2
    <3> DEFINE content == [object[e].content EXCEPT !.invocation = i, !.expiresAt = t]
               written == [object[e] EXCEPT !.content = content]
    <3>1. e \in DOMAIN object
      BY <2>2 DEF Overwrite, TypeOK
    <3>2. object[e].content \in Content /\ object[e].address \in Addresses
      BY <3>1, <1>1
    <3>3. t \in Nat
      BY TimeAssumption
    <3>4. content \in Content
      BY <3>2, <3>3 DEF Content
    <3>5. written \in [address : Addresses, content : Content]
      BY <3>1, <3>4, <1>1
    <3>6. object' = [object EXCEPT ![e] = written] /\ held' = held
      BY <2>2, <3>1 DEF Overwrite
    <3> HIDE DEF written
    <3>7. QED
      BY <3>1, <3>5, <3>6, ReplaceDictionary DEF TypeOK
  <2>3. QED
    BY <2>1, <2>2
<1>3. UNCHANGED <<now, drifted, issued, history>>
  BY DEF Copy, Overwrite
<1>4. QED
  BY <1>2, <1>3 DEF TypeOK, history

\* Every operation keeps the types.
LEMMA NextTypeOK == TypeOK /\ [Next]_vars => TypeOK'
<1> SUFFICES ASSUME TypeOK, [Next]_vars PROVE TypeOK'
  OBVIOUS
<1>1. ASSUME NEW e \in Envelopes, NEW a \in Addresses, NEW r \in Requests,
             NEW f \in Invocations, NEW i \in Invocations, NEW c \in Contexts,
             Issue(e, a, r, f, i, c)
      PROVE  TypeOK'
  BY <1>1, IssueTypeOK
<1>2. ASSUME NEW r \in Requests, RefuseIssue(r) PROVE TypeOK'
  <2>1. IsDictionary(issued', Addresses, Retained)
    BY <1>2, RestrictDictionary DEF RefuseIssue, Unexpired, TypeOK
  <2>2. QED
    BY <1>2, <2>1 DEF RefuseIssue, history, TypeOK
<1>3. ASSUME NEW e \in Envelopes, NEW r \in Requests, NEW i \in Invocations,
             NEW c \in Contexts, NEW clockReads \in BOOLEAN,
             Consume(e, r, i, c, clockReads) \/ Reject(e, r, i, c, clockReads)
      PROVE  TypeOK'
  BY <1>3, ConsumeTypeOK
<1>4. ASSUME NEW e \in Envelopes, NEW i \in Invocations,
             \/ \E source \in Envelopes, a \in Addresses : Copy(e, source, a, i)
             \/ \E t \in Times : Overwrite(e, i, t)
      PROVE  TypeOK'
  BY <1>4, ObjectTypeOK
<1>5. ASSUME NEW e \in Envelopes, Release(e) PROVE TypeOK'
  BY <1>5 DEF Release, history, TypeOK
<1>6. ASSUME NEW t \in Times, SetClock(t) PROVE TypeOK'
  BY <1>6 DEF SetClock, history, TypeOK
<1>7. CASE Drift
  BY <1>7 DEF Drift, history, TypeOK
<1>8. CASE UNCHANGED vars
  BY <1>8 DEF vars, TypeOK
<1>9. QED
  BY <1>1, <1>2, <1>3, <1>4, <1>5, <1>6, <1>7, <1>8 DEF Next

\* The variables have the types of the dictionaries and records of the code
\* (ExecutionBoundary.__init__, _IssuedEnvelope, AuthorityEnvelope).
THEOREM TypeCorrect == Spec => []TypeOK
<1>1. QED
  BY InitTypeOK, NextTypeOK, PTL DEF Spec

\* The invariant holds of the empty boundary.
LEMMA InitIInv == Init => IInv
<1> SUFFICES ASSUME Init PROVE IInv
  OBVIOUS
<1>1. TypeOK
  BY InitTypeOK
<1>2. DOMAIN object = {} /\ DOMAIN issued = {} /\ DOMAIN permits = {} /\ DOMAIN verified = {}
  BY DEF Init
<1>3. QED
  BY <1>1, <1>2 DEF Init, IInv, AddressesDiffer, EntriesIntact, HistoryOfObjects,
     ExactBinding, FreshWhenUsed, OneAuthorizationPerRequest

\* issue() keeps the invariant: the new object lies at a free address, is bound to an
\* unused request id, and nothing was ever presented or recorded for it.
LEMMA IssueIInv ==
  ASSUME IInv, TypeOK',
         NEW e \in Envelopes, NEW a \in Addresses, NEW r \in Requests,
         NEW f \in Invocations, NEW i \in Invocations, NEW c \in Contexts,
         Issue(e, a, r, f, i, c)
  PROVE  IInv'
<1> DEFINE entry == [envelope |-> e, serialized |-> NewContent(r, i, c), context |-> c,
                     issuedAt |-> now, expiresAt |-> now + MaxAge]
<1>1. /\ DOMAIN object' = DOMAIN object \cup {e}
      /\ \A x \in DOMAIN object : x # e /\ object'[x] = object[x]
      /\ object'[e] = [address |-> a, content |-> NewContent(r, i, c)]
  BY DEF Issue, Extend
<1>2. /\ DOMAIN issued' = Unexpired \cup {a}
      /\ \A b \in Unexpired : b # a /\ b \in DOMAIN issued /\ issued'[b] = issued[b]
      /\ issued'[a] = entry
  BY DEF Issue, Extend, Restrict, Unexpired, Free
<1>3. /\ DOMAIN permits' = DOMAIN permits \cup {e}
      /\ \A x \in DOMAIN permits : x # e /\ permits'[x] = permits[x]
      /\ permits'[e] = [request |-> r, invocation |-> i, context |-> c, at |-> now]
  BY DEF Issue, Extend, IInv, HistoryOfObjects
<1>4. held' = held \cup {e} /\ \A h \in held : object[h].address # a
  BY DEF Issue, Free
<1>5. UNCHANGED <<now, presented, verified>> /\ held \subseteq DOMAIN object
  BY DEF Issue, IInv, TypeOK
<1>6. AddressesDiffer'
  BY <1>1, <1>2, <1>4, <1>5 DEF IInv, AddressesDiffer
<1>7. EntriesIntact'
  BY <1>1, <1>2, <1>3, <1>5 DEF IInv, AddressesDiffer, EntriesIntact, HistoryOfObjects,
     NewContent, BoundTo
<1>8. HistoryOfObjects'
  BY <1>1, <1>3, <1>5 DEF IInv, HistoryOfObjects
<1>9. ExactBinding' /\ FreshWhenUsed'
  BY <1>3, <1>5 DEF IInv, ExactBinding, FreshWhenUsed
<1>10. OneAuthorizationPerRequest'
  <2>1. \A b \in Unexpired : issued[b].serialized.request # r
    BY <1>2 DEF Issue, Reused, IInv, EntriesIntact
  <2>2. QED
    BY <1>2, <2>1 DEF IInv, OneAuthorizationPerRequest, NewContent
<1>11. QED
  BY <1>6, <1>7, <1>8, <1>9, <1>10 DEF IInv

\* Removing entries, and nothing else, keeps what is said of the entries.
LEMMA ShrinkEntries ==
  ASSUME IInv, NEW D \in SUBSET (DOMAIN issued), issued' = Restrict(issued, D),
         UNCHANGED <<object, held, permits>>,
         \A a \in D : issued[a].envelope \notin presented'
  PROVE  AddressesDiffer' /\ EntriesIntact' /\ OneAuthorizationPerRequest'
<1>1. DOMAIN issued' = D /\ \A a \in D : a \in DOMAIN issued /\ issued'[a] = issued[a]
  BY DEF Restrict
<1>2. AddressesDiffer'
  BY <1>1 DEF IInv, AddressesDiffer
<1>3. EntriesIntact'
  BY <1>1 DEF IInv, EntriesIntact, BoundTo
<1>4. OneAuthorizationPerRequest'
  BY <1>1 DEF IInv, OneAuthorizationPerRequest
<1>5. QED
  BY <1>2, <1>3, <1>4

\* Popping the entry at a held envelope's address leaves no entry of that envelope.
LEMMA PoppedIsGone ==
  ASSUME IInv, NEW e \in held,
         NEW a \in DOMAIN issued \ {object[e].address}
  PROVE  issued[a].envelope # e
BY DEF IInv, AddressesDiffer

\* consume() keeps the invariant, whether it returns the binding ...
LEMMA ConsumeIInv ==
  ASSUME IInv, TypeOK',
         NEW e \in Envelopes, NEW r \in Requests, NEW i \in Invocations,
         NEW c \in Contexts, NEW clockReads \in BOOLEAN,
         Consume(e, r, i, c, clockReads)
  PROVE  IInv'
<1> DEFINE b == object[e].address
<1>1. e \in held /\ e \in DOMAIN object /\ presented' = presented \cup {e}
  BY DEF Consume, IInv, TypeOK
<1>2. AddressesDiffer' /\ EntriesIntact' /\ OneAuthorizationPerRequest'
  <2>1. \A a \in DOMAIN issued \ {b} : issued[a].envelope \notin presented'
    BY <1>1, PoppedIsGone DEF IInv, EntriesIntact
  <2>2. QED
    BY <2>1, ShrinkEntries DEF Consume, Popped
<1>3. /\ b \in DOMAIN issued
      /\ issued[b].envelope = e
      /\ e \in DOMAIN permits
      /\ r = permits[e].request /\ i = permits[e].invocation /\ c = permits[e].context
      /\ permits[e].at <= now /\ now < permits[e].at + MaxAge
  BY DEF Consume, Verifies, Known, IInv, EntriesIntact
<1>4. /\ DOMAIN verified' = DOMAIN verified \cup {e}
      /\ verified'[e] = [request |-> r, invocation |-> i, context |-> c, at |-> now]
      /\ \A x \in DOMAIN verified : x # e => verified'[x] = verified[x]
  BY DEF Consume, Extend
<1>5. permits' = permits /\ object' = object
  BY DEF Consume
<1>6. ExactBinding'
  BY <1>3, <1>4, <1>5 DEF IInv, ExactBinding
<1>7. FreshWhenUsed'
  BY <1>3, <1>4, <1>5 DEF IInv, FreshWhenUsed
<1>8. HistoryOfObjects'
  BY <1>1, <1>4, <1>5 DEF IInv, HistoryOfObjects
<1>9. QED
  BY <1>2, <1>6, <1>7, <1>8 DEF IInv

\* ... or raises.
LEMMA RejectIInv ==
  ASSUME IInv, TypeOK',
         NEW e \in Envelopes, NEW r \in Requests, NEW i \in Invocations,
         NEW c \in Contexts, NEW clockReads \in BOOLEAN,
         Reject(e, r, i, c, clockReads)
  PROVE  IInv'
<1>1. e \in held /\ e \in DOMAIN object /\ presented' = presented \cup {e}
  BY DEF Reject, IInv, TypeOK
<1>2. AddressesDiffer' /\ EntriesIntact' /\ OneAuthorizationPerRequest'
  <2>1. \A a \in DOMAIN issued \ {object[e].address} : issued[a].envelope \notin presented'
    BY <1>1, PoppedIsGone DEF IInv, EntriesIntact
  <2>2. QED
    BY <2>1, ShrinkEntries DEF Reject, Popped
<1>3. ExactBinding' /\ FreshWhenUsed' /\ HistoryOfObjects'
  BY <1>1 DEF Reject, IInv, ExactBinding, FreshWhenUsed, HistoryOfObjects
<1>4. QED
  BY <1>2, <1>3 DEF IInv

\* A caller's own object is at an address of its own, and no entry refers to it.
LEMMA CopyIInv ==
  ASSUME IInv, TypeOK',
         NEW e \in Envelopes, NEW source \in Envelopes, NEW a \in Addresses,
         NEW i \in Invocations, Copy(e, source, a, i)
  PROVE  IInv'
<1>1. /\ DOMAIN object' = DOMAIN object \cup {e}
      /\ \A x \in DOMAIN object : x # e /\ object'[x] = object[x]
      /\ object'[e].address = a
  BY DEF Copy, Extend
<1>2. /\ held' = held \cup {e} /\ held \subseteq DOMAIN object
      /\ a \notin DOMAIN issued /\ \A h \in held : object[h].address # a
      /\ UNCHANGED <<now, issued, presented, permits, verified>>
  BY DEF Copy, Free, IInv, TypeOK, history
<1>3. AddressesDiffer'
  BY <1>1, <1>2 DEF IInv, AddressesDiffer
<1>4. EntriesIntact'
  BY <1>1, <1>2 DEF IInv, AddressesDiffer, EntriesIntact, BoundTo
<1>5. HistoryOfObjects' /\ ExactBinding' /\ FreshWhenUsed' /\ OneAuthorizationPerRequest'
  BY <1>1, <1>2 DEF IInv, HistoryOfObjects, ExactBinding, FreshWhenUsed,
     OneAuthorizationPerRequest
<1>6. QED
  BY <1>3, <1>4, <1>5 DEF IInv

\* Overwriting arguments and times of an envelope moves no object.
LEMMA OverwriteIInv ==
  ASSUME IInv, TypeOK',
         NEW e \in Envelopes, NEW i \in Invocations, NEW t \in Times, Overwrite(e, i, t)
  PROVE  IInv'
<1>1. /\ DOMAIN object' = DOMAIN object
      /\ \A x \in DOMAIN object : /\ object'[x].address = object[x].address
                                  /\ object'[x].content.request = object[x].content.request
  BY DEF Overwrite, IInv, TypeOK, IsDictionary, Content
<1>2. UNCHANGED <<now, held, issued, presented, permits, verified>> /\ held \subseteq DOMAIN object
  BY DEF Overwrite, history, IInv, TypeOK
<1>3. AddressesDiffer'
  BY <1>1, <1>2 DEF IInv, AddressesDiffer
<1>4. EntriesIntact'
  BY <1>1, <1>2 DEF IInv, AddressesDiffer, EntriesIntact, BoundTo
<1>5. HistoryOfObjects' /\ ExactBinding' /\ FreshWhenUsed' /\ OneAuthorizationPerRequest'
  BY <1>1, <1>2 DEF IInv, HistoryOfObjects, ExactBinding, FreshWhenUsed,
     OneAuthorizationPerRequest
<1>6. QED
  BY <1>3, <1>4, <1>5 DEF IInv

\* The invariant is inductive.
LEMMA NextIInv == IInv /\ [Next]_vars => IInv'
<1> SUFFICES ASSUME IInv, [Next]_vars PROVE IInv'
  OBVIOUS
<1>0. TypeOK'
  BY NextTypeOK DEF IInv
<1>1. ASSUME NEW e \in Envelopes, NEW a \in Addresses, NEW r \in Requests,
             NEW f \in Invocations, NEW i \in Invocations, NEW c \in Contexts,
             Issue(e, a, r, f, i, c)
      PROVE  IInv'
  BY <1>0, <1>1, IssueIInv
<1>2. ASSUME NEW r \in Requests, RefuseIssue(r) PROVE IInv'
  <2>1. Unexpired \in SUBSET (DOMAIN issued) /\ presented' = presented
    BY <1>2 DEF RefuseIssue, Unexpired, history
  <2>2. \A a \in Unexpired : issued[a].envelope \notin presented'
    BY <2>1 DEF IInv, EntriesIntact
  <2>3. AddressesDiffer' /\ EntriesIntact' /\ OneAuthorizationPerRequest'
    BY <1>2, <2>1, <2>2, ShrinkEntries DEF RefuseIssue, history
  <2>4. HistoryOfObjects' /\ ExactBinding' /\ FreshWhenUsed'
    BY <1>2 DEF RefuseIssue, history, IInv, HistoryOfObjects, ExactBinding, FreshWhenUsed
  <2>5. QED
    BY <1>0, <2>3, <2>4 DEF IInv
<1>3. ASSUME NEW e \in Envelopes, NEW r \in Requests, NEW i \in Invocations,
             NEW c \in Contexts, NEW clockReads \in BOOLEAN,
             Consume(e, r, i, c, clockReads)
      PROVE  IInv'
  BY <1>0, <1>3, ConsumeIInv
<1>4. ASSUME NEW e \in Envelopes, NEW r \in Requests, NEW i \in Invocations,
             NEW c \in Contexts, NEW clockReads \in BOOLEAN,
             Reject(e, r, i, c, clockReads)
      PROVE  IInv'
  BY <1>0, <1>4, RejectIInv
<1>5. ASSUME NEW e \in Envelopes, NEW source \in Envelopes, NEW a \in Addresses,
             NEW i \in Invocations, Copy(e, source, a, i)
      PROVE  IInv'
  BY <1>0, <1>5, CopyIInv
<1>6. ASSUME NEW e \in Envelopes, NEW i \in Invocations, NEW t \in Times,
             Overwrite(e, i, t)
      PROVE  IInv'
  BY <1>0, <1>6, OverwriteIInv
<1>7. ASSUME NEW e \in Envelopes, Release(e) PROVE IInv'
  BY <1>0, <1>7 DEF Release, history, IInv, AddressesDiffer, EntriesIntact, BoundTo,
     HistoryOfObjects, ExactBinding, FreshWhenUsed, OneAuthorizationPerRequest
<1>8. ASSUME NEW t \in Times, SetClock(t) PROVE IInv'
  BY <1>0, <1>8 DEF SetClock, history, IInv, AddressesDiffer, EntriesIntact, BoundTo,
     HistoryOfObjects, ExactBinding, FreshWhenUsed, OneAuthorizationPerRequest
<1>9. ASSUME Drift \/ UNCHANGED vars PROVE IInv'
  BY <1>0, <1>9 DEF Drift, vars, history, IInv, AddressesDiffer, EntriesIntact, BoundTo,
     HistoryOfObjects, ExactBinding, FreshWhenUsed, OneAuthorizationPerRequest
<1>10. QED
  BY <1>1, <1>2, <1>3, <1>4, <1>5, <1>6, <1>7, <1>8, <1>9 DEF Next

LEMMA Invariance == Spec => []IInv
<1>1. QED
  BY InitIInv, NextIInv, PTL DEF Spec

\* What consume() lets through is exactly what the policy permitted for the envelope.
THEOREM BindingIsExact == Spec => []ExactBinding
<1>1. IInv => ExactBinding
  BY DEF IInv
<1>2. QED
  BY <1>1, Invariance, PTL

\* An envelope is used only within max_age_seconds of the reading it was issued at.
THEOREM UsedFresh == Spec => []FreshWhenUsed
<1>1. IInv => FreshWhenUsed
  BY DEF IInv
<1>2. QED
  BY <1>1, Invariance, PTL

\* Outstanding authorizations have different request ids.
THEOREM RequestIdsUnique == Spec => []OneAuthorizationPerRequest
<1>1. IInv => OneAuthorizationPerRequest
  BY DEF IInv
<1>2. QED
  BY <1>1, Invariance, PTL

\* Only consume() on a known envelope changes its number of uses.
LEMMA UsesChangeByConsume ==
  ASSUME IInv, [Next]_vars, NEW x \in Envelopes, uses'[x] # uses[x]
  PROVE  \E r \in Requests, i \in Invocations, c \in Contexts, k \in BOOLEAN :
             Consume(x, r, i, c, k)
<1>1. uses' # uses
  OBVIOUS
<1>2. PICK e \in Envelopes, r \in Requests, i \in Invocations, c \in Contexts,
           k \in BOOLEAN : Consume(e, r, i, c, k)
  <2>1. ~(UNCHANGED vars)
    BY <1>1 DEF vars
  <2>2. Next
    BY <2>1
  <2>3. /\ \A e \in Envelopes, a \in Addresses, r \in Requests, f, i \in Invocations,
              c \in Contexts : ~Issue(e, a, r, f, i, c)
        /\ \A e \in Envelopes, r \in Requests, i \in Invocations, c \in Contexts,
              k \in BOOLEAN : ~Reject(e, r, i, c, k)
    BY <1>1 DEF Issue, Reject
  <2>4. /\ \A r \in Requests : ~RefuseIssue(r)
        /\ \A e, source \in Envelopes, a \in Addresses, i \in Invocations :
              ~Copy(e, source, a, i)
        /\ \A e \in Envelopes, i \in Invocations, t \in Times : ~Overwrite(e, i, t)
        /\ \A e \in Envelopes : ~Release(e)
        /\ \A t \in Times : ~SetClock(t)
        /\ ~Drift
    BY <1>1 DEF RefuseIssue, Copy, Overwrite, Release, SetClock, Drift, history
  <2>5. QED
    BY <2>2, <2>3, <2>4, Zenon DEF Next
<1>3. e = x
  BY <1>2 DEF Consume, IInv, TypeOK
<1>4. QED
  BY <1>2, <1>3

\* An envelope that consume() was called with is never verified afterwards, whether the
\* first verification succeeded or failed.
THEOREM SpentForever == Spec => PresentedIsSpent
<1>1. IInv /\ [Next]_vars =>
          [\A e \in Envelopes : uses'[e] # uses[e] => e \notin presented]_vars
  <2> SUFFICES ASSUME IInv, [Next]_vars, NEW e \in Envelopes, uses'[e] # uses[e]
               PROVE  e \notin presented
    OBVIOUS
  <2>1. PICK r \in Requests, i \in Invocations, c \in Contexts, k \in BOOLEAN :
            Consume(e, r, i, c, k)
    BY UsesChangeByConsume
  <2>2. QED
    BY <2>1 DEF Consume, Verifies, Known, IInv, EntriesIntact
<1>2. QED
  BY <1>1, Invariance, PTL DEF Spec, PresentedIsSpent

\* The purge of an issuance drops expired entries only, and an issuance overwrites none.
LEMMA PurgeDropsExpired ==
  ASSUME IInv, NEW a \in DOMAIN issued, a \notin Unexpired
  PROVE  now >= issued[a].expiresAt
BY TimeAssumption DEF Unexpired, IInv, TypeOK, IsDictionary, Retained

\* consume() pops the entry of the envelope it was called with, or none.
LEMMA PopTakesOwnEntry ==
  ASSUME IInv, NEW e \in held, NEW a \in DOMAIN issued,
         issued' = Popped(e), presented' = presented \cup {e}
  PROVE  Stays(a) \/ OwnPresented(a)
<1>1. CASE a = object[e].address
  BY <1>1 DEF IInv, AddressesDiffer, OwnPresented
<1>2. CASE a # object[e].address
  BY <1>2 DEF Popped, Restrict, Stays
<1>3. QED
  BY <1>1, <1>2

\* An authorization is removed by its own presentation or by its expiry only: no other
\* object ever comes to the address under which it is retained.
THEOREM NothingElseRemoves == Spec => OnlyOwnerOrExpiryRemoves
<1>1. IInv /\ [Next]_vars => [RemovesRightly]_vars
  <2> SUFFICES ASSUME IInv, Next PROVE RemovesRightly
    OBVIOUS
  <2>1. ASSUME NEW e \in Envelopes, NEW a \in Addresses, NEW r \in Requests,
               NEW f \in Invocations, NEW i \in Invocations, NEW c \in Contexts,
               Issue(e, a, r, f, i, c)
        PROVE  RemovesRightly
    <3>1. \A b \in Unexpired : Stays(b)
      BY <2>1 DEF Issue, Extend, Restrict, Free, Unexpired, Stays
    <3>2. QED
      BY <3>1, PurgeDropsExpired DEF RemovesRightly
  <2>2. ASSUME NEW r \in Requests, RefuseIssue(r) PROVE RemovesRightly
    <3>1. \A b \in Unexpired : Stays(b)
      BY <2>2 DEF RefuseIssue, Restrict, Unexpired, Stays
    <3>2. QED
      BY <3>1, PurgeDropsExpired DEF RemovesRightly
  <2>3. ASSUME NEW e \in Envelopes, NEW r \in Requests, NEW i \in Invocations,
               NEW c \in Contexts, NEW k \in BOOLEAN,
               Consume(e, r, i, c, k) \/ Reject(e, r, i, c, k)
        PROVE  RemovesRightly
    <3>1. e \in held /\ issued' = Popped(e) /\ presented' = presented \cup {e}
      BY <2>3 DEF Consume, Reject
    <3>2. QED
      BY <3>1, PopTakesOwnEntry DEF RemovesRightly
  <2>4. ASSUME issued' = issued PROVE RemovesRightly
    BY <2>4 DEF RemovesRightly, Stays
  <2>5. ASSUME NEW e \in Envelopes, NEW source \in Envelopes, NEW a \in Addresses,
               NEW i \in Invocations, Copy(e, source, a, i)
        PROVE  issued' = issued
    BY <2>5 DEF Copy
  <2>6. ASSUME NEW e \in Envelopes, NEW i \in Invocations, NEW t \in Times,
               Overwrite(e, i, t)
        PROVE  issued' = issued
    BY <2>6 DEF Overwrite
  <2>7. ASSUME NEW e \in Envelopes, Release(e) PROVE issued' = issued
    BY <2>7 DEF Release
  <2>8. ASSUME NEW t \in Times, SetClock(t) PROVE issued' = issued
    BY <2>8 DEF SetClock
  <2>9. ASSUME Drift PROVE issued' = issued
    BY <2>9 DEF Drift
  <2>10. QED
    BY <2>1, <2>2, <2>3, <2>4, <2>5, <2>6, <2>7, <2>8, <2>9 DEF Next
<1>2. QED
  BY <1>1, Invariance, PTL DEF Spec, OnlyOwnerOrExpiryRemoves
-------------------------------------------------------------------------------
\* Keeping some of the entries only makes the permits of the other ones lapse.
LEMMA DroppingVoids ==
  ASSUME NEW K \in SUBSET DOMAIN issued, issued' = Restrict(issued, K),
         UNCHANGED <<permits, uses>>
  PROVE  Ledger!Next
<1> DEFINE Kept == {issued[a].envelope : a \in K}
           V == Outstanding \ Kept
<1>1. Outstanding' = Kept
  BY DEF Outstanding, Restrict
<1>2. Kept \subseteq Outstanding
  BY DEF Outstanding
<1>3. V \in SUBSET Outstanding /\ Outstanding' = Outstanding \ V
  BY <1>1, <1>2
<1>4. Ledger!Void(V)
  BY <1>3 DEF Ledger!Void
<1>5. QED
  BY <1>3, <1>4 DEF Ledger!Next

\* The permits of the entries that survive the purge number at most those entries.
LEMMA KeptAreFew ==
  ASSUME TypeOK, ~Full
  PROVE  Cardinality({issued[a].envelope : a \in Unexpired}) < Capacity
<1> DEFINE Kept == {issued[a].envelope : a \in Unexpired}
           f == [a \in Unexpired |-> issued[a].envelope]
<1>1. Unexpired \subseteq Addresses
  BY DEF Unexpired, TypeOK, IsDictionary
<1>2. IsFiniteSet(Unexpired)
  BY <1>1, FS_Subset, MemoryAssumption
<1>3. f \in Surjection(Unexpired, Kept)
  BY DEF Surjection
<1>4. IsFiniteSet(Kept) /\ Cardinality(Kept) <= Cardinality(Unexpired)
  BY <1>2, <1>3, FS_Surjection
<1>5. Cardinality(Kept) \in Nat /\ Cardinality(Unexpired) \in Nat
  BY <1>2, <1>4, FS_CardinalityType
<1>6. Cardinality(Unexpired) < Capacity
  BY <1>5, MemoryAssumption DEF Full
<1>7. QED
  BY <1>4, <1>5, <1>6, MemoryAssumption

\* An issuance grants the permit of the new object; expired ones lapse.
LEMMA IssueGrants ==
  ASSUME IInv, NEW e \in Envelopes, NEW a \in Addresses, NEW r \in Requests,
         NEW f \in Invocations, NEW i \in Invocations, NEW c \in Contexts,
         Issue(e, a, r, f, i, c)
  PROVE  Ledger!Next
<1> DEFINE Kept == {issued[b].envelope : b \in Unexpired}
           V == Outstanding \ Kept
<1>1. Kept \subseteq Outstanding
  BY DEF Outstanding, Unexpired
<1>2. V \in SUBSET Outstanding /\ Outstanding \ V = Kept
  BY <1>1
<1>3. Outstanding' = Kept \cup {e}
  <2>1. /\ DOMAIN issued' = Unexpired \cup {a}
        /\ issued'[a].envelope = e
        /\ \A b \in Unexpired : issued'[b] = issued[b]
    BY DEF Issue, Extend, Restrict, Free, Unexpired
  <2>2. QED
    BY <2>1 DEF Outstanding
<1>4. e \notin DOMAIN permits /\ (DOMAIN permits)' = DOMAIN permits \cup {e}
  BY DEF Issue, IInv, HistoryOfObjects, Extend
<1>5. Cardinality(Outstanding \ V) < Capacity
  BY <1>2, KeptAreFew DEF Issue, IInv
<1>6. Ledger!Cardinality(Outstanding \ V) < Capacity
  BY <1>5 DEF Cardinality, Ledger!Cardinality
<1>7. Ledger!Grant(e, V)
  BY <1>2, <1>3, <1>4, <1>6 DEF Ledger!Grant, Issue
<1>8. QED
  BY <1>2, <1>7 DEF Ledger!Next

\* A verified presentation uses the permit of the envelope, and no other one lapses.
LEMMA ConsumeUses ==
  ASSUME IInv, NEW e \in Envelopes, NEW r \in Requests, NEW i \in Invocations,
         NEW c \in Contexts, NEW k \in BOOLEAN, Consume(e, r, i, c, k)
  PROVE  Ledger!Next
<1> DEFINE a == object[e].address
<1>1. a \in DOMAIN issued /\ issued[a].envelope = e
  BY DEF Consume, Verifies, Known
<1>2. \A b \in DOMAIN issued : b # a => issued[b].envelope # e
  BY DEF IInv, AddressesDiffer
<1>3. e \in Outstanding /\ Outstanding' = Outstanding \ {e}
  <2>1. /\ DOMAIN issued' = DOMAIN issued \ {a}
        /\ \A b \in DOMAIN issued' : issued'[b] = issued[b]
    BY DEF Consume, Popped, Restrict
  <2>2. QED
    BY <1>1, <1>2, <2>1 DEF Outstanding
<1>4. Ledger!Use(e)
  BY <1>3 DEF Ledger!Use, Consume
<1>5. QED
  BY <1>4 DEF Ledger!Next

\* The process-local boundary implements the ledger of single-use permits: a permit is
\* used at most once, only while it is outstanding, and at most Capacity of them are.
THEOREM BoundaryIsLedger == Spec => ImplementsLedger
<1>1. Init => Ledger!Init
  <2> SUFFICES ASSUME Init PROVE Ledger!Init
    OBVIOUS
  <2>1. DOMAIN permits = {} /\ DOMAIN issued = {}
    BY DEF Init
  <2>2. QED
    BY <2>1 DEF Init, Ledger!Init, Outstanding
<1>2. IInv /\ [Next]_vars => [Ledger!Next]_(Ledger!ledger)
  <2> SUFFICES ASSUME IInv, [Next]_vars PROVE [Ledger!Next]_(Ledger!ledger)
    OBVIOUS
  <2>1. ASSUME NEW e \in Envelopes, NEW a \in Addresses, NEW r \in Requests,
               NEW f \in Invocations, NEW i \in Invocations, NEW c \in Contexts,
               Issue(e, a, r, f, i, c)
        PROVE  Ledger!Next
    BY <2>1, IssueGrants
  <2>2. ASSUME NEW r \in Requests, RefuseIssue(r) PROVE Ledger!Next
    <3>1. Unexpired \in SUBSET DOMAIN issued
      BY DEF Unexpired
    <3>2. QED
      BY <2>2, <3>1, DroppingVoids DEF RefuseIssue, history
  <2>3. ASSUME NEW e \in Envelopes, NEW r \in Requests, NEW i \in Invocations,
               NEW c \in Contexts, NEW k \in BOOLEAN, Consume(e, r, i, c, k)
        PROVE  Ledger!Next
    BY <2>3, ConsumeUses
  <2>4. ASSUME NEW e \in Envelopes, NEW r \in Requests, NEW i \in Invocations,
               NEW c \in Contexts, NEW k \in BOOLEAN, Reject(e, r, i, c, k)
        PROVE  Ledger!Next
    BY <2>4, DroppingVoids DEF Reject, Popped
  <2>5. ASSUME UNCHANGED <<issued, permits, uses>> PROVE UNCHANGED Ledger!ledger
    BY <2>5 DEF Ledger!ledger, Outstanding
  <2>6. ASSUME NEW e \in Envelopes, NEW source \in Envelopes, NEW a \in Addresses,
               NEW i \in Invocations, Copy(e, source, a, i)
        PROVE  UNCHANGED <<issued, permits, uses>>
    BY <2>6 DEF Copy, history
  <2>7. ASSUME NEW e \in Envelopes, NEW i \in Invocations, NEW t \in Times,
               Overwrite(e, i, t)
        PROVE  UNCHANGED <<issued, permits, uses>>
    BY <2>7 DEF Overwrite, history
  <2>8. ASSUME NEW e \in Envelopes, Release(e) PROVE UNCHANGED <<issued, permits, uses>>
    BY <2>8 DEF Release, history
  <2>9. ASSUME NEW t \in Times, SetClock(t) PROVE UNCHANGED <<issued, permits, uses>>
    BY <2>9 DEF SetClock, history
  <2>10. ASSUME Drift PROVE UNCHANGED <<issued, permits, uses>>
    BY <2>10 DEF Drift, history
  <2>11. ASSUME UNCHANGED vars PROVE UNCHANGED <<issued, permits, uses>>
    BY <2>11 DEF vars
  <2>12. QED
    BY <2>1, <2>2, <2>3, <2>4, <2>5, <2>6, <2>7, <2>8, <2>9, <2>10, <2>11 DEF Next
<1>3. QED
  BY <1>1, <1>2, Invariance, PTL DEF Spec, ImplementsLedger, Ledger!Spec
===============================================================================
